---------------------------- MODULE Spec2Model ----------------------------
(***************************************************************************)
(* A model of the page cache of bustub: the extendible hash table          *)
(* (src/container/hash/extendible_hash_table.cpp), the LRU-K replacer and  *)
(* the buffer pool manager instance (lru_k_replacer.cpp and                *)
(* buffer_pool_manager_instance.cpp, both in src/unnamed/part_000).        *)
(*                                                                         *)
(* Each component is a record of its member fields and each method is an   *)
(* operator from such records to such records, so that the buffer pool     *)
(* manager composes the very operators the stand-alone specifications      *)
(* exercise.  Three specifications are given:                              *)
(*   Spec     the buffer pool manager, driving page table and replacer;    *)
(*   SpecHT   the hash table alone, under insert / remove / find;          *)
(*   SpecLRU  the replacer alone, under its five operations.               *)
(***************************************************************************)
EXTENDS Integers, Sequences, FiniteSets, TLC

VARIABLES
  pages_,         \* BPM: frame id -> Page (page_id_, pin_count_, is_dirty_, data_)
  free_list_,     \* BPM: std::list<frame_id_t>
  page_table_,    \* the ExtendibleHashTable (BPM directory, or the table under test)
  replacer_,      \* the LRUKReplacer (BPM replacer, or the replacer under test)
  next_page_id_,  \* BPM: the page id allocator
  disk,           \* the disk manager's pages: page id -> contents
  unsaved,        \* history: pages unpinned with is_dirty = true, not written since
  model_map,      \* history: the map the hash table is meant to implement
  last,           \* the last call: its name, arguments, results and events
  latch_,         \* the replacer's std::mutex: 0 when free, else the thread holding it
  threads         \* thread -> the replacer method it is in and its position there

vars == <<pages_, free_list_, page_table_, replacer_, next_page_id_, disk,
          unsaved, model_map, last, latch_, threads>>

\* the variables of the threads, which the single-caller specifications leave alone
NoThreads == <<latch_, threads>>

----------------------------------------------------------------------------
(* Bounds of the model.                                                    *)

PoolSize == 2        \* pool_size of the buffer pool under Spec
ReplacerK == 2       \* replacer_k of the buffer pool under Spec
MaxTime == 3         \* new_page and fetch_page are called while the replacer's
                     \* timestamp counter is below MaxTime
MaxData == 1         \* page contents are 0 .. MaxData
BpmBucketSize == 1   \* bucket size of the buffer pool's page table
HTBucketSize == 1    \* bucket size of the table under SpecHT
MaxKey == 4          \* keys 0 .. MaxKey-1 under SpecHT
MaxValue == 1        \* values 0 .. MaxValue under SpecHT
MaxIters == 8        \* fuel of the insert loop
LruFrames == 3       \* frames 0 .. LruFrames-1 under SpecLRU
LruCapacity == 2     \* num_frames of the replacer under SpecLRU
LruK == 2            \* k of the replacer under SpecLRU
LruMaxTime == 4      \* timestamp cap under SpecLRU
ThreadCount == 2     \* threads calling the replacer concurrently
ThrFrames == 2       \* frame ids those threads pass
ThrMaxTime == 3      \* accesses those threads record
ThrBucketSize == 2   \* bucket size of the page table under SpecBpmThreads

INVALID_PAGE_ID == 0 - 1
NoFrame == 0 - 1     \* frame_id_t frame_id = -1
NoValue == 0 - 1     \* an out-parameter Find left untouched

\* the page ids MaxTime calls of new_page can allocate
PageIds == 0 .. (MaxTime - 1)
Frames == 0 .. (PoolSize - 1)
Data == 0 .. MaxData
Keys == 0 .. (MaxKey - 1)
Values == 0 .. MaxValue

Min(S) == CHOOSE x \in S : \A y \in S : x <= y

----------------------------------------------------------------------------
(* The extendible hash table.                                              *)
(*   table  == [global_depth_, bucket_size_, num_buckets_, dir_, buckets]  *)
(*   bucket == [size_, depth_, list_]                                      *)
(* dir_ holds, for slot i (0-based) at position i+1, the index in          *)
(* `buckets` of the bucket the slot's shared_ptr refers to.                *)

\* std::hash<int> of libstdc++ is the identity
Hash(key) == key

RECURSIVE ShiftLeft1(_)
\* 1 << n
ShiftLeft1(n) == IF n = 0 THEN 1 ELSE 2 * ShiftLeft1(n - 1)

\* x & mask for a mask of the form (1 << n) - 1
BitAnd(x, mask) == x % (mask + 1)

NewBucket(array_size, depth) ==
  [size_ |-> array_size, depth_ |-> depth, list_ |-> <<>>]

NewHashTable(bucket_size) ==
  [global_depth_ |-> 0, bucket_size_ |-> bucket_size, num_buckets_ |-> 1,
   dir_ |-> <<1>>, buckets |-> <<NewBucket(bucket_size, 0)>>]

IndexOf(ht, key) ==
  LET mask == ShiftLeft1(ht.global_depth_) - 1
  IN BitAnd(Hash(key), mask)

IsFull(b) == Len(b.list_) = b.size_

BucketFind(b, key) ==
  LET hits == {i \in 1 .. Len(b.list_) : b.list_[i][1] = key}
  IN IF hits = {} THEN [found |-> FALSE, value |-> NoValue]
     ELSE [found |-> TRUE, value |-> b.list_[Min(hits)][2]]

BucketRemove(b, key) ==
  LET hits == {i \in 1 .. Len(b.list_) : b.list_[i][1] = key}
  IN IF hits = {} THEN [ok |-> FALSE, bucket |-> b]
     ELSE LET at == Min(hits)
          IN [ok |-> TRUE,
              bucket |-> [b EXCEPT !.list_ =
                            SubSeq(b.list_, 1, at - 1) \o
                            SubSeq(b.list_, at + 1, Len(b.list_))]]

BucketInsert(b, key, value) ==
  LET hits == {i \in 1 .. Len(b.list_) : b.list_[i][1] = key}
  IN IF hits # {}
     THEN [ok |-> TRUE, bucket |-> [b EXCEPT !.list_[Min(hits)] = <<key, value>>]]
     ELSE IF IsFull(b)
     THEN [ok |-> FALSE, bucket |-> b]
     ELSE [ok |-> TRUE, bucket |-> [b EXCEPT !.list_ = Append(@, <<key, value>>)]]

Find(ht, key) ==
  LET dir_index == IndexOf(ht, key)
  IN BucketFind(ht.buckets[ht.dir_[dir_index + 1]], key)

Remove(ht, key) ==
  LET dir_index == IndexOf(ht, key)
      b == ht.dir_[dir_index + 1]
      r == BucketRemove(ht.buckets[b], key)
  IN [ok |-> r.ok, ht |-> [ht EXCEPT !.buckets[b] = r.bucket]]

RECURSIVE InsertAll(_, _)
\* new_bucket->Insert(...) for each entry of a list, in list order
InsertAll(b, kvs) ==
  IF kvs = <<>> THEN b
  ELSE InsertAll(BucketInsert(b, kvs[1][1], kvs[1][2]).bucket, Tail(kvs))

\* RedistributeBucket without lists.erase(iter++): the entries that move stay
\* in the old bucket too
RedistributeBucketKeepsMoved(ht, b) ==
  LET bucket == ht.buckets[b]
      old_mask == ShiftLeft1(bucket.depth_ - 1) - 1
      curr_mask == ShiftLeft1(bucket.depth_) - 1
      old_hash_value == BitAnd(Hash(bucket.list_[1][1]), old_mask)
      Moves(kv) == BitAnd(Hash(kv[1]), curr_mask) # old_hash_value
  IN [ht EXCEPT
        !.num_buckets_ = @ + 1,
        !.buckets = Append(ht.buckets,
                           InsertAll(NewBucket(ht.bucket_size_, bucket.depth_),
                                     SelectSeq(bucket.list_, Moves))),
        !.dir_ = [i \in 1 .. Len(ht.dir_) |->
                    IF /\ BitAnd(i - 1, old_mask) = old_hash_value
                       /\ BitAnd(i - 1, curr_mask) # old_hash_value
                    THEN Len(ht.buckets) + 1 ELSE ht.dir_[i]]]

\* RedistributeBucket without (i & old_mask) == old_hash_value in the loop over
\* the directory
RedistributeBucketAnySlot(ht, b) ==
  LET bucket == ht.buckets[b]
      bucket_depth == bucket.depth_
      lists == bucket.list_
      old_mask == ShiftLeft1(bucket_depth - 1) - 1
      curr_mask == ShiftLeft1(bucket_depth) - 1
      old_hash_value == BitAnd(Hash(lists[1][1]), old_mask)
      Stays(kv) == BitAnd(Hash(kv[1]), curr_mask) = old_hash_value
      Moves(kv) == BitAnd(Hash(kv[1]), curr_mask) # old_hash_value
      new_bucket == InsertAll(NewBucket(ht.bucket_size_, bucket_depth),
                              SelectSeq(lists, Moves))
      new_index == Len(ht.buckets) + 1
  IN [ht EXCEPT
        !.num_buckets_ = @ + 1,
        !.buckets = Append([ht.buckets EXCEPT ![b].list_ = SelectSeq(lists, Stays)],
                           new_bucket),
        !.dir_ = [i \in 1 .. Len(ht.dir_) |->
                    IF BitAnd(i - 1, curr_mask) # old_hash_value
                    THEN new_index ELSE ht.dir_[i]]]

\* RedistributeBucket without num_buckets_++
RedistributeBucketNoCount(ht, b) ==
  LET bucket == ht.buckets[b]
      bucket_depth == bucket.depth_
      lists == bucket.list_
      old_mask == ShiftLeft1(bucket_depth - 1) - 1
      curr_mask == ShiftLeft1(bucket_depth) - 1
      old_hash_value == BitAnd(Hash(lists[1][1]), old_mask)
      Stays(kv) == BitAnd(Hash(kv[1]), curr_mask) = old_hash_value
      Moves(kv) == BitAnd(Hash(kv[1]), curr_mask) # old_hash_value
      new_bucket == InsertAll(NewBucket(ht.bucket_size_, bucket_depth),
                              SelectSeq(lists, Moves))
      new_index == Len(ht.buckets) + 1
  IN [ht EXCEPT
        !.buckets = Append([ht.buckets EXCEPT ![b].list_ = SelectSeq(lists, Stays)],
                           new_bucket),
        !.dir_ = [i \in 1 .. Len(ht.dir_) |->
                    IF /\ BitAnd(i - 1, old_mask) = old_hash_value
                       /\ BitAnd(i - 1, curr_mask) # old_hash_value
                    THEN new_index ELSE ht.dir_[i]]]

\* bucket b (an index into ht.buckets) has had its depth incremented already
RedistributeBucket(ht, b) ==
  LET bucket == ht.buckets[b]
      bucket_depth == bucket.depth_
      lists == bucket.list_
      old_mask == ShiftLeft1(bucket_depth - 1) - 1
      curr_mask == ShiftLeft1(bucket_depth) - 1
      old_hash_value == BitAnd(Hash(lists[1][1]), old_mask)
      Stays(kv) == BitAnd(Hash(kv[1]), curr_mask) = old_hash_value
      Moves(kv) == BitAnd(Hash(kv[1]), curr_mask) # old_hash_value
      new_bucket == InsertAll(NewBucket(ht.bucket_size_, bucket_depth),
                              SelectSeq(lists, Moves))
      new_index == Len(ht.buckets) + 1
  IN [ht EXCEPT
        !.num_buckets_ = @ + 1,
        !.buckets = Append([ht.buckets EXCEPT ![b].list_ = SelectSeq(lists, Stays)],
                           new_bucket),
        !.dir_ = [i \in 1 .. Len(ht.dir_) |->
                    IF /\ BitAnd(i - 1, old_mask) = old_hash_value
                       /\ BitAnd(i - 1, curr_mask) # old_hash_value
                    THEN new_index ELSE ht.dir_[i]]]

RECURSIVE InsertLoopNoDepth(_, _, _, _)
\* InsertLoop without global_depth_++ where it doubles the directory
InsertLoopNoDepth(ht, key, value, n) ==
  LET index == IndexOf(ht, key)
      b == ht.dir_[index + 1]
      r == BucketInsert(ht.buckets[b], key, value)
      Then(step, res) == [res EXCEPT !.trace = <<step>> \o @]
  IN IF r.ok
     THEN [ht |-> [ht EXCEPT !.buckets[b] = r.bucket], iters |-> n, done |-> TRUE,
           trace |-> <<>>]
     ELSE IF n >= MaxIters
     THEN [ht |-> ht, iters |-> n, done |-> FALSE, trace |-> <<>>]
     ELSE IF ht.buckets[b].depth_ = ht.global_depth_
     THEN Then("Double",
               InsertLoopNoDepth([ht EXCEPT !.dir_ = ht.dir_ \o ht.dir_],
                                 key, value, n + 1))
     ELSE Then("Split",
               InsertLoopNoDepth(
                 RedistributeBucket([ht EXCEPT !.buckets[b].depth_ = @ + 1], b),
                 key, value, n + 1))

RECURSIVE InsertLoop(_, _, _, _)
\* the while (true) loop of Insert; n counts the iterations that did not break,
\* trace names them: "Double" the directory, or "Split" the bucket
InsertLoop(ht, key, value, n) ==
  LET index == IndexOf(ht, key)
      b == ht.dir_[index + 1]
      r == BucketInsert(ht.buckets[b], key, value)
      Then(step, res) == [res EXCEPT !.trace = <<step>> \o @]
  IN IF r.ok
     THEN [ht |-> [ht EXCEPT !.buckets[b] = r.bucket], iters |-> n, done |-> TRUE,
           trace |-> <<>>]
     ELSE IF n >= MaxIters
     THEN [ht |-> ht, iters |-> n, done |-> FALSE, trace |-> <<>>]
     ELSE IF ht.buckets[b].depth_ = ht.global_depth_
     THEN Then("Double",
               InsertLoop([ht EXCEPT !.global_depth_ = @ + 1,
                                     !.dir_ = ht.dir_ \o ht.dir_],
                          key, value, n + 1))
     ELSE Then("Split",
               InsertLoop(RedistributeBucket([ht EXCEPT !.buckets[b].depth_ = @ + 1], b),
                          key, value, n + 1))

Insert(ht, key, value) == InsertLoop(ht, key, value, 0).ht

----------------------------------------------------------------------------
(* The LRU-K replacer.                                                     *)
(*   replacer == [replacer_size_, k_, frame_infos_, curr_size_,            *)
(*                current_timestamp_]                                      *)
(* frame_infos_ is a function from the tracked frame ids to                *)
(* [time_sequence_, evictable_]; time_sequence_ has its oldest timestamp   *)
(* at the front.                                                           *)

NoFrameInfos == [f \in {} |-> 0]

NewReplacer(num_frames, k) ==
  [replacer_size_ |-> num_frames, k_ |-> k, frame_infos_ |-> NoFrameInfos,
   curr_size_ |-> 0, current_timestamp_ |-> 0]

\* a default-constructed FrameInfo, as frame_infos_[frame_id] makes one
DefaultFrameInfo == [time_sequence_ |-> <<>>, evictable_ |-> FALSE]

Erase(infos, frame_id) == [f \in (DOMAIN infos) \ {frame_id} |-> infos[f]]

\* the orders in which a loop may visit the keys of a map
Orders(S) ==
  {o \in [1 .. Cardinality(S) -> S] : \A i, j \in 1 .. Cardinality(S) : o[i] = o[j] => i = j}

\* Cmp without its two tests of size() < k_: the older front wins
CmpOldestFront(r, a, b) ==
  Head(r.frame_infos_[a].time_sequence_) < Head(r.frame_infos_[b].time_sequence_)

\* the comparator of Evict: frame a is to be evicted rather than frame b
Cmp(r, a, b) ==
  LET sa == r.frame_infos_[a].time_sequence_
      sb == r.frame_infos_[b].time_sequence_
  IN IF Len(sa) < r.k_ /\ Len(sb) = r.k_ THEN TRUE
     ELSE IF Len(sb) < r.k_ /\ Len(sa) = r.k_ THEN FALSE
     ELSE Head(sa) < Head(sb)

RECURSIVE EvictScanAnyFrame(_, _, _)
\* EvictScan without its test of evictable_
EvictScanAnyFrame(r, order, frame_id) ==
  IF order = <<>> THEN frame_id
  ELSE LET f == Head(order)
       IN EvictScanAnyFrame(r, Tail(order),
                            IF frame_id = NoFrame \/ Cmp(r, f, frame_id)
                            THEN f ELSE frame_id)

RECURSIVE EvictScan(_, _, _)
\* the for loop of Evict over frame_infos_, visited in `order`
EvictScan(r, order, frame_id) ==
  IF order = <<>> THEN frame_id
  ELSE LET f == Head(order)
       IN EvictScan(r, Tail(order),
                    IF /\ r.frame_infos_[f].evictable_
                       /\ (frame_id = NoFrame \/ Cmp(r, f, frame_id))
                    THEN f ELSE frame_id)

\* Evict without curr_size_--
EvictKeepsSize(r, order) ==
  LET frame_id == EvictScan(r, order, NoFrame)
  IN IF frame_id # NoFrame
     THEN [ok |-> TRUE, frame_id |-> frame_id,
           r |-> [r EXCEPT !.frame_infos_ = Erase(@, frame_id)]]
     ELSE [ok |-> FALSE, frame_id |-> NoFrame, r |-> r]

Evict(r, order) ==
  LET frame_id == EvictScan(r, order, NoFrame)
  IN IF frame_id # NoFrame
     THEN [ok |-> TRUE, frame_id |-> frame_id,
           r |-> [r EXCEPT !.frame_infos_ = Erase(@, frame_id),
                           !.curr_size_ = @ - 1]]
     ELSE [ok |-> FALSE, frame_id |-> NoFrame, r |-> r]

\* RecordAccess without the early return for a full replacer
RecordAccessWhenFull(r, frame_id) ==
  LET info == IF frame_id \in DOMAIN r.frame_infos_
              THEN r.frame_infos_[frame_id] ELSE DefaultFrameInfo
      seq == IF Len(info.time_sequence_) = r.k_
             THEN Tail(info.time_sequence_) ELSE info.time_sequence_
      pushed == [info EXCEPT !.time_sequence_ = Append(seq, r.current_timestamp_)]
  IN [r EXCEPT
        !.frame_infos_ = [f \in (DOMAIN r.frame_infos_) \cup {frame_id} |->
                            IF f = frame_id THEN pushed ELSE r.frame_infos_[f]],
        !.current_timestamp_ = @ + 1]

RecordAccess(r, frame_id) ==
  IF /\ frame_id \notin DOMAIN r.frame_infos_
     /\ r.replacer_size_ = Cardinality(DOMAIN r.frame_infos_)
  THEN r
  ELSE LET info == IF frame_id \in DOMAIN r.frame_infos_
                   THEN r.frame_infos_[frame_id] ELSE DefaultFrameInfo
           seq == IF Len(info.time_sequence_) = r.k_
                  THEN Tail(info.time_sequence_) ELSE info.time_sequence_
           pushed == [info EXCEPT !.time_sequence_ = Append(seq, r.current_timestamp_)]
       IN [r EXCEPT
             !.frame_infos_ = [f \in (DOMAIN r.frame_infos_) \cup {frame_id} |->
                                 IF f = frame_id THEN pushed ELSE r.frame_infos_[f]],
             !.current_timestamp_ = @ + 1]

\* SetEvictable counting every call on a tracked frame, whatever the flag was
SetEvictableCountsAlways(r, frame_id, set_evictable) ==
  IF frame_id \notin DOMAIN r.frame_infos_ THEN r
  ELSE [r EXCEPT
          !.frame_infos_[frame_id].evictable_ = set_evictable,
          !.curr_size_ = IF set_evictable THEN @ + 1 ELSE @ - 1]

SetEvictable(r, frame_id, set_evictable) ==
  IF frame_id \notin DOMAIN r.frame_infos_ THEN r
  ELSE LET flag == r.frame_infos_[frame_id].evictable_
       IN [r EXCEPT
             !.frame_infos_[frame_id].evictable_ = set_evictable,
             !.curr_size_ = IF ~flag /\ set_evictable THEN @ + 1
                            ELSE IF flag /\ ~set_evictable THEN @ - 1
                            ELSE @]

\* Remove without its test of evictable_
ReplacerRemoveAny(r, frame_id) ==
  IF frame_id \notin DOMAIN r.frame_infos_ THEN [thrown |-> FALSE, r |-> r]
  ELSE [thrown |-> FALSE,
        r |-> [r EXCEPT !.frame_infos_ = Erase(@, frame_id), !.curr_size_ = @ - 1]]

\* Remove; thrown is the throw "Remove a non-evictable frame!"
ReplacerRemove(r, frame_id) ==
  IF frame_id \notin DOMAIN r.frame_infos_ THEN [thrown |-> FALSE, r |-> r]
  ELSE IF ~r.frame_infos_[frame_id].evictable_ THEN [thrown |-> TRUE, r |-> r]
  ELSE [thrown |-> FALSE,
        r |-> [r EXCEPT !.frame_infos_ = Erase(@, frame_id), !.curr_size_ = @ - 1]]

Size(r) == r.curr_size_

----------------------------------------------------------------------------
(* The record of the last call.                                            *)

Call(op, key, flag, ok, val, frame, victim, events, thrown) ==
  [op |-> op, key |-> key, flag |-> flag, ok |-> ok, val |-> val,
   frame |-> frame, victim |-> victim, events |-> events, thrown |-> thrown]

NoCall == Call("Init", NoValue, FALSE, FALSE, NoValue, NoFrame, NoFrame, <<>>, FALSE)

----------------------------------------------------------------------------
(* The disk manager and the events of a call.                              *)

ReadPage(d, page_id) == d[page_id]

WritePage(d, page_id, data) == [d EXCEPT ![page_id] = data]

\* one step of a call, in the order the code takes them
Ev(e, page, frame, data) == [e |-> e, page |-> page, frame |-> frame, data |-> data]

\* the page ids the WritePage events of a call name
Written(events) == {events[i].page : i \in {j \in 1 .. Len(events) : events[j].e = "WritePage"}}

----------------------------------------------------------------------------
(* The buffer pool manager instance.                                       *)
(*   bpm == [pages_, free_list_, page_table_, replacer_, next_page_id_,    *)
(*           disk]                                                         *)
(* A method yields the manager after the call, what it returned and the    *)
(* events of the call.                                                     *)

\* a Page as its constructor leaves it
NewPageObject ==
  [page_id_ |-> INVALID_PAGE_ID, pin_count_ |-> 0, is_dirty_ |-> FALSE, data_ |-> 0]

RECURSIVE InitialFreeList(_, _)
\* the constructor's loop: free_list_.emplace_back(i) for i = from .. pool_size-1
InitialFreeList(from, pool_size) ==
  IF from >= pool_size THEN <<>>
  ELSE <<from>> \o InitialFreeList(from + 1, pool_size)

NewBufferPoolManager(pool_size, replacer_k) ==
  [pages_ |-> [f \in 0 .. (pool_size - 1) |-> NewPageObject],
   free_list_ |-> InitialFreeList(0, pool_size),
   page_table_ |-> NewHashTable(BpmBucketSize),
   replacer_ |-> NewReplacer(pool_size, replacer_k),
   next_page_id_ |-> 0,
   disk |-> [p \in PageIds |-> 0]]

\* WriteBackIfDirty with the test of IsDirty() negated
WriteBackIfClean(d, page, frame_id) ==
  IF ~page.is_dirty_
  THEN [disk |-> WritePage(d, page.page_id_, page.data_),
        events |-> <<Ev("WritePage", page.page_id_, frame_id, page.data_)>>]
  ELSE [disk |-> d, events |-> <<>>]

\* if (pages_[frame_id].IsDirty()) disk_manager_->WritePage(...): the write-back
\* of the frame a successful Evict named
WriteBackIfDirty(d, page, frame_id) ==
  IF page.is_dirty_
  THEN [disk |-> WritePage(d, page.page_id_, page.data_),
        events |-> <<Ev("WritePage", page.page_id_, frame_id, page.data_)>>]
  ELSE [disk |-> d, events |-> <<>>]

\* AllocatePage with ++next_page_id_
AllocatePagePreIncrement(b) ==
  [page_id |-> b.next_page_id_ + 1, b |-> [b EXCEPT !.next_page_id_ = @ + 1]]

\* return next_page_id_++
AllocatePage(b) ==
  [page_id |-> b.next_page_id_, b |-> [b EXCEPT !.next_page_id_ = @ + 1]]

Result(b, ok, val, frame, victim, events, thrown) ==
  [b |-> b, ok |-> ok, val |-> val, frame |-> frame, victim |-> victim,
   events |-> events, thrown |-> thrown]

\* NewPgImp asking the replacer first and the free list when Evict fails
NewPgImpEvictsFirst(b, order) ==
  LET ev == Evict(b.replacer_, order)
      from_free == b.free_list_ # <<>> /\ ~ev.ok
  IN IF ~from_free /\ ~ev.ok
     THEN Result(b, FALSE, INVALID_PAGE_ID, NoFrame, NoFrame,
                 <<Ev("Evict", INVALID_PAGE_ID, NoFrame, 0)>>, FALSE)
     ELSE
       LET frame_id == IF from_free THEN Head(b.free_list_) ELSE ev.frame_id
           old == b.pages_[frame_id]
           back == WriteBackIfDirty(b.disk, old, frame_id)
           b1 == IF from_free
                 THEN [b EXCEPT !.free_list_ = Tail(@)]
                 ELSE [b EXCEPT !.replacer_ = ev.r,
                                !.disk = back.disk,
                                !.page_table_ = Remove(@, old.page_id_).ht]
           acquire == IF from_free
                      THEN <<Ev("PopFree", INVALID_PAGE_ID, frame_id, 0)>>
                      ELSE <<Ev("Evict", old.page_id_, frame_id, 0)>>
                           \o back.events
                           \o <<Ev("Remove", old.page_id_, frame_id, 0)>>
           alloc == AllocatePage(b1)
           page_id == alloc.page_id
       IN Result([alloc.b EXCEPT
                    !.page_table_ = Insert(@, page_id, frame_id),
                    !.pages_[frame_id] = [page_id_ |-> page_id, pin_count_ |-> 1,
                                          is_dirty_ |-> FALSE, data_ |-> 0],
                    !.replacer_ = SetEvictable(RecordAccess(@, frame_id), frame_id, FALSE)],
                 TRUE, page_id, frame_id, IF from_free THEN NoFrame ELSE frame_id,
                 acquire \o <<Ev("Insert", page_id, frame_id, 0),
                              Ev("RecordAccess", page_id, frame_id, 0),
                              Ev("SetEvictable", page_id, frame_id, 0)>>,
                 FALSE)

NewPgImp(b, order) ==
  LET from_free == b.free_list_ # <<>>
      ev == Evict(b.replacer_, order)
  IN IF ~from_free /\ ~ev.ok
     THEN Result(b, FALSE, INVALID_PAGE_ID, NoFrame, NoFrame,
                 <<Ev("Evict", INVALID_PAGE_ID, NoFrame, 0)>>, FALSE)
     ELSE
       LET frame_id == IF from_free THEN Head(b.free_list_) ELSE ev.frame_id
           old == b.pages_[frame_id]
           back == WriteBackIfDirty(b.disk, old, frame_id)
           b1 == IF from_free
                 THEN [b EXCEPT !.free_list_ = Tail(@)]
                 ELSE [b EXCEPT !.replacer_ = ev.r,
                                !.disk = back.disk,
                                !.page_table_ = Remove(@, old.page_id_).ht]
           acquire == IF from_free
                      THEN <<Ev("PopFree", INVALID_PAGE_ID, frame_id, 0)>>
                      ELSE <<Ev("Evict", old.page_id_, frame_id, 0)>>
                           \o back.events
                           \o <<Ev("Remove", old.page_id_, frame_id, 0)>>
           alloc == AllocatePage(b1)
           page_id == alloc.page_id
       IN Result([alloc.b EXCEPT
                    !.page_table_ = Insert(@, page_id, frame_id),
                    !.pages_[frame_id] = [page_id_ |-> page_id, pin_count_ |-> 1,
                                          is_dirty_ |-> FALSE, data_ |-> 0],
                    !.replacer_ = SetEvictable(RecordAccess(@, frame_id), frame_id, FALSE)],
                 TRUE, page_id, frame_id, IF from_free THEN NoFrame ELSE frame_id,
                 acquire \o <<Ev("Insert", page_id, frame_id, 0),
                              Ev("RecordAccess", page_id, frame_id, 0),
                              Ev("SetEvictable", page_id, frame_id, 0)>>,
                 FALSE)

FetchPgImp(b, page_id, order) ==
  LET hit == Find(b.page_table_, page_id)
      from_free == b.free_list_ # <<>>
      ev == Evict(b.replacer_, order)
  IN IF hit.found
     THEN Result([b EXCEPT
                    !.replacer_ = SetEvictable(RecordAccess(@, hit.value), hit.value, FALSE),
                    !.pages_[hit.value].pin_count_ = @ + 1],
                 TRUE, page_id, hit.value, NoFrame,
                 <<Ev("RecordAccess", page_id, hit.value, 0),
                   Ev("SetEvictable", page_id, hit.value, 0)>>, FALSE)
     ELSE IF ~from_free /\ ~ev.ok
     THEN Result(b, FALSE, INVALID_PAGE_ID, NoFrame, NoFrame,
                 <<Ev("Evict", INVALID_PAGE_ID, NoFrame, 0)>>, FALSE)
     ELSE
       LET frame_id == IF from_free THEN Head(b.free_list_) ELSE ev.frame_id
           old == b.pages_[frame_id]
           back == WriteBackIfDirty(b.disk, old, frame_id)
           b1 == IF from_free
                 THEN [b EXCEPT !.free_list_ = Tail(@)]
                 ELSE [b EXCEPT !.replacer_ = ev.r,
                                !.disk = back.disk,
                                !.page_table_ = Remove(@, old.page_id_).ht]
           acquire == IF from_free
                      THEN <<Ev("PopFree", INVALID_PAGE_ID, frame_id, 0)>>
                      ELSE <<Ev("Evict", old.page_id_, frame_id, 0)>>
                           \o back.events
                           \o <<Ev("Remove", old.page_id_, frame_id, 0)>>
           read == ReadPage(b1.disk, page_id)
       IN Result([b1 EXCEPT
                    !.page_table_ = Insert(@, page_id, frame_id),
                    !.pages_[frame_id] = [page_id_ |-> page_id, pin_count_ |-> 1,
                                          is_dirty_ |-> FALSE, data_ |-> read],
                    !.replacer_ = SetEvictable(RecordAccess(@, frame_id), frame_id, FALSE)],
                 TRUE, page_id, frame_id, IF from_free THEN NoFrame ELSE frame_id,
                 acquire \o <<Ev("Insert", page_id, frame_id, 0),
                              Ev("ReadPage", page_id, frame_id, read),
                              Ev("RecordAccess", page_id, frame_id, 0),
                              Ev("SetEvictable", page_id, frame_id, 0)>>,
                 FALSE)

\* UnpinPgImp marking the frame evictable whatever the pin count left
UnpinPgImpAlwaysEvictable(b, page_id, is_dirty) ==
  LET hit == Find(b.page_table_, page_id)
  IN IF ~hit.found \/ b.pages_[hit.value].pin_count_ = 0
     THEN Result(b, FALSE, page_id, hit.value, NoFrame, <<>>, FALSE)
     ELSE Result([b EXCEPT
                    !.pages_[hit.value].pin_count_ = @ - 1,
                    !.pages_[hit.value].is_dirty_ = @ \/ is_dirty,
                    !.replacer_ = SetEvictable(@, hit.value, TRUE)],
                 TRUE, page_id, hit.value, NoFrame,
                 <<Ev("SetEvictable", page_id, hit.value, 1)>>, FALSE)

\* UnpinPgImp with is_dirty_ = is_dirty in place of is_dirty_ |= is_dirty
UnpinPgImpAssignsDirty(b, page_id, is_dirty) ==
  LET hit == Find(b.page_table_, page_id)
  IN IF ~hit.found \/ b.pages_[hit.value].pin_count_ = 0
     THEN Result(b, FALSE, page_id, hit.value, NoFrame, <<>>, FALSE)
     ELSE LET count == b.pages_[hit.value].pin_count_ - 1
          IN Result([b EXCEPT
                       !.pages_[hit.value].pin_count_ = count,
                       !.pages_[hit.value].is_dirty_ = is_dirty,
                       !.replacer_ = IF count = 0 THEN SetEvictable(@, hit.value, TRUE)
                                     ELSE @],
                    TRUE, page_id, hit.value, NoFrame,
                    IF count = 0 THEN <<Ev("SetEvictable", page_id, hit.value, 1)>>
                    ELSE <<>>, FALSE)

\* UnpinPgImp without replacer_->SetEvictable(frame_id, true)
UnpinPgImpNeverEvictable(b, page_id, is_dirty) ==
  LET hit == Find(b.page_table_, page_id)
  IN IF ~hit.found \/ b.pages_[hit.value].pin_count_ = 0
     THEN Result(b, FALSE, page_id, hit.value, NoFrame, <<>>, FALSE)
     ELSE LET frame_id == hit.value
              count == b.pages_[frame_id].pin_count_ - 1
          IN Result([b EXCEPT
                       !.pages_[frame_id].pin_count_ = count,
                       !.pages_[frame_id].is_dirty_ = @ \/ is_dirty],
                    TRUE, page_id, frame_id, NoFrame, <<>>, FALSE)

UnpinPgImp(b, page_id, is_dirty) ==
  LET hit == Find(b.page_table_, page_id)
  IN IF ~hit.found \/ b.pages_[hit.value].pin_count_ = 0
     THEN Result(b, FALSE, page_id, hit.value, NoFrame, <<>>, FALSE)
     ELSE LET frame_id == hit.value
              count == b.pages_[frame_id].pin_count_ - 1
          IN Result([b EXCEPT
                       !.pages_[frame_id].pin_count_ = count,
                       !.pages_[frame_id].is_dirty_ = @ \/ is_dirty,
                       !.replacer_ = IF count = 0 THEN SetEvictable(@, frame_id, TRUE)
                                     ELSE @],
                    TRUE, page_id, frame_id, NoFrame,
                    IF count = 0 THEN <<Ev("SetEvictable", page_id, frame_id, 1)>>
                    ELSE <<>>, FALSE)

\* pages_->is_dirty_ = false: pages_ points at the first Page of the array
FlushPgImp(b, page_id) ==
  LET hit == Find(b.page_table_, page_id)
  IN IF ~hit.found
     THEN Result(b, FALSE, page_id, NoFrame, NoFrame, <<>>, FALSE)
     ELSE LET frame_id == hit.value
              page == b.pages_[frame_id]
          IN Result([b EXCEPT
                       !.disk = WritePage(@, page.page_id_, page.data_),
                       !.pages_[0].is_dirty_ = FALSE],
                    TRUE, page_id, frame_id, NoFrame,
                    <<Ev("WritePage", page.page_id_, frame_id, page.data_)>>, FALSE)

RECURSIVE FlushAllLoop(_, _, _)
\* the for loop of FlushAllPgsImp from frame_id on; events are those so far
FlushAllLoop(b, frame_id, events) ==
  IF frame_id >= Cardinality(DOMAIN b.pages_)
  THEN Result(b, TRUE, INVALID_PAGE_ID, NoFrame, NoFrame, events, FALSE)
  ELSE LET page == b.pages_[frame_id]
       IN IF Find(b.page_table_, page.page_id_).found
          THEN FlushAllLoop([b EXCEPT
                               !.disk = WritePage(@, page.page_id_, page.data_),
                               !.pages_[0].is_dirty_ = FALSE],
                            frame_id + 1,
                            Append(events,
                                   Ev("WritePage", page.page_id_, frame_id, page.data_)))
          ELSE FlushAllLoop(b, frame_id + 1, events)

FlushAllPgsImp(b) == FlushAllLoop(b, 0, <<>>)

\* DeletePgImp without its test of the pin count
DeletePgImpPinned(b, page_id) ==
  LET hit == Find(b.page_table_, page_id)
  IN IF ~hit.found
     THEN Result(b, TRUE, page_id, NoFrame, NoFrame, <<>>, FALSE)
     ELSE LET page == b.pages_[hit.value]
              back == WriteBackIfDirty(b.disk, page, hit.value)
          IN Result([b EXCEPT
                       !.disk = back.disk,
                       !.replacer_.frame_infos_ = Erase(@, hit.value),
                       !.free_list_ = Append(@, hit.value),
                       !.page_table_ = Remove(@, page_id).ht],
                    TRUE, page_id, hit.value, NoFrame, back.events, FALSE)

\* DeletePgImp without page_table_->Remove(page_id)
DeletePgImpKeepsBinding(b, page_id) ==
  LET hit == Find(b.page_table_, page_id)
  IN IF ~hit.found
     THEN Result(b, TRUE, page_id, NoFrame, NoFrame, <<>>, FALSE)
     ELSE IF b.pages_[hit.value].pin_count_ > 0
     THEN Result(b, FALSE, page_id, hit.value, NoFrame, <<>>, FALSE)
     ELSE
       LET frame_id == hit.value
           page == b.pages_[frame_id]
           b1 == IF page.is_dirty_
                 THEN [b EXCEPT !.disk = WritePage(@, page.page_id_, page.data_),
                                !.pages_[0].is_dirty_ = FALSE]
                 ELSE b
           written == IF page.is_dirty_
                      THEN <<Ev("WritePage", page.page_id_, frame_id, page.data_)>>
                      ELSE <<>>
           rm == ReplacerRemove(b.replacer_, frame_id)
       IN IF rm.thrown
          THEN Result(b1, FALSE, page_id, frame_id, NoFrame, written, TRUE)
          ELSE Result([b1 EXCEPT
                         !.replacer_ = rm.r,
                         !.free_list_ = Append(@, frame_id)],
                      TRUE, page_id, frame_id, NoFrame,
                      written \o <<Ev("ReplacerRemove", page_id, frame_id, 0),
                                   Ev("PushFree", page_id, frame_id, 0)>>, FALSE)

DeletePgImp(b, page_id) ==
  LET hit == Find(b.page_table_, page_id)
  IN IF ~hit.found
     THEN Result(b, TRUE, page_id, NoFrame, NoFrame, <<>>, FALSE)
     ELSE IF b.pages_[hit.value].pin_count_ > 0
     THEN Result(b, FALSE, page_id, hit.value, NoFrame, <<>>, FALSE)
     ELSE
       LET frame_id == hit.value
           page == b.pages_[frame_id]
           b1 == IF page.is_dirty_
                 THEN [b EXCEPT !.disk = WritePage(@, page.page_id_, page.data_),
                                !.pages_[0].is_dirty_ = FALSE]
                 ELSE b
           written == IF page.is_dirty_
                      THEN <<Ev("WritePage", page.page_id_, frame_id, page.data_)>>
                      ELSE <<>>
           rm == ReplacerRemove(b.replacer_, frame_id)
       IN IF rm.thrown
          THEN Result(b1, FALSE, page_id, frame_id, NoFrame, written, TRUE)
          ELSE Result([b1 EXCEPT
                         !.replacer_ = rm.r,
                         !.free_list_ = Append(@, frame_id),
                         !.page_table_ = Remove(@, page_id).ht],
                      TRUE, page_id, frame_id, NoFrame,
                      written \o <<Ev("ReplacerRemove", page_id, frame_id, 0),
                                   Ev("PushFree", page_id, frame_id, 0),
                                   Ev("Remove", page_id, frame_id, 0)>>, FALSE)

----------------------------------------------------------------------------
(* SpecHT: the hash table alone.                                           *)

InitHT ==
  /\ pages_ = <<>>
  /\ free_list_ = <<>>
  /\ page_table_ = NewHashTable(HTBucketSize)
  /\ replacer_ = <<>>
  /\ next_page_id_ = 0
  /\ disk = <<>>
  /\ unsaved = {}
  /\ model_map = [k \in Keys |-> NoValue]
  /\ last = NoCall
  /\ latch_ = 0
  /\ threads = <<>>

HTInsert(k, v) ==
  /\ page_table_' = Insert(page_table_, k, v)
  /\ model_map' = [model_map EXCEPT ![k] = v]
  /\ last' = Call("Insert", k, FALSE, InsertLoop(page_table_, k, v, 0).done, v,
                  NoFrame, NoFrame, InsertLoop(page_table_, k, v, 0).trace, FALSE)
  /\ UNCHANGED <<pages_, free_list_, replacer_, next_page_id_, disk, unsaved>>
  /\ UNCHANGED NoThreads

HTRemove(k) ==
  /\ page_table_' = Remove(page_table_, k).ht
  /\ model_map' = [model_map EXCEPT ![k] = NoValue]
  /\ last' = Call("Remove", k, FALSE, Remove(page_table_, k).ok, NoValue,
                  NoFrame, NoFrame, <<>>, FALSE)
  /\ UNCHANGED <<pages_, free_list_, replacer_, next_page_id_, disk, unsaved>>
  /\ UNCHANGED NoThreads

HTFind(k) ==
  /\ last' = Call("Find", k, FALSE, Find(page_table_, k).found,
                  Find(page_table_, k).value, NoFrame, NoFrame, <<>>, FALSE)
  /\ UNCHANGED <<pages_, free_list_, page_table_, replacer_, next_page_id_, disk,
                 unsaved, model_map>>
  /\ UNCHANGED NoThreads

NextHT ==
  \/ \E k \in Keys, v \in Values : HTInsert(k, v)
  \/ \E k \in Keys : HTRemove(k)
  \/ \E k \in Keys : HTFind(k)

SpecHT == InitHT /\ [][NextHT]_vars

----------------------------------------------------------------------------
(* SpecLRU: the replacer alone.                                            *)

LruFrameIds == 0 .. (LruFrames - 1)

InitLRU ==
  /\ pages_ = <<>>
  /\ free_list_ = <<>>
  /\ page_table_ = <<>>
  /\ replacer_ = NewReplacer(LruCapacity, LruK)
  /\ next_page_id_ = 0
  /\ disk = <<>>
  /\ unsaved = {}
  /\ model_map = <<>>
  /\ last = NoCall
  /\ latch_ = 0
  /\ threads = <<>>

LRUOthers ==
  <<pages_, free_list_, page_table_, next_page_id_, disk, unsaved, model_map, NoThreads>>

LRURecordAccess(f) ==
  /\ replacer_.current_timestamp_ < LruMaxTime
  /\ replacer_' = RecordAccess(replacer_, f)
  /\ last' = Call("RecordAccess", f, FALSE, TRUE, NoValue, NoFrame, NoFrame, <<>>, FALSE)
  /\ UNCHANGED LRUOthers

LRUSetEvictable(f, b) ==
  /\ replacer_' = SetEvictable(replacer_, f, b)
  /\ last' = Call("SetEvictable", f, b, TRUE, Size(replacer_), NoFrame, NoFrame, <<>>, FALSE)
  /\ UNCHANGED LRUOthers

LRURemove(f) ==
  /\ replacer_' = ReplacerRemove(replacer_, f).r
  /\ last' = Call("Remove", f, FALSE, ~ReplacerRemove(replacer_, f).thrown, NoValue,
                  NoFrame, NoFrame, <<>>, ReplacerRemove(replacer_, f).thrown)
  /\ UNCHANGED LRUOthers

LRUEvict ==
  \E order \in Orders(DOMAIN replacer_.frame_infos_) :
    /\ replacer_' = Evict(replacer_, order).r
    /\ last' = Call("Evict", NoValue, FALSE, Evict(replacer_, order).ok,
                    Size(replacer_), Evict(replacer_, order).frame_id, NoFrame,
                    <<>>, FALSE)
    /\ UNCHANGED LRUOthers

LRUSize ==
  /\ last' = Call("Size", NoValue, FALSE, TRUE, Size(replacer_), NoFrame, NoFrame,
                  <<>>, FALSE)
  /\ UNCHANGED <<replacer_>>
  /\ UNCHANGED LRUOthers

NextLRU ==
  \/ \E f \in LruFrameIds : LRURecordAccess(f)
  \/ \E f \in LruFrameIds, b \in BOOLEAN : LRUSetEvictable(f, b)
  \/ \E f \in LruFrameIds : LRURemove(f)
  \/ LRUEvict
  \/ LRUSize

SpecLRU == InitLRU /\ [][NextLRU]_vars

----------------------------------------------------------------------------
(* SpecLRUThreads: the replacer under concurrent callers.  A method that   *)
(* begins with std::lock_guard<std::mutex> lock_guard(latch_) takes two    *)
(* steps: it acquires the latch, and it runs its body, releases the latch  *)
(* and returns.  Size() has no lock_guard: it is called, and it reads      *)
(* curr_size_ and returns.                                                 *)

ThreadIds == 1 .. ThreadCount

ThrFrameIds == 0 .. (ThrFrames - 1)

Idle == [op |-> "Idle", key |-> NoFrame, flag |-> FALSE, at |-> "idle"]

InBody(op, key, flag) == [op |-> op, key |-> key, flag |-> flag, at |-> "body"]

InitLRUThreads ==
  /\ pages_ = <<>>
  /\ free_list_ = <<>>
  /\ page_table_ = <<>>
  /\ replacer_ = NewReplacer(LruCapacity, LruK)
  /\ next_page_id_ = 0
  /\ disk = <<>>
  /\ unsaved = {}
  /\ model_map = <<>>
  /\ last = NoCall
  /\ latch_ = 0
  /\ threads = [t \in ThreadIds |-> Idle]

ThrOthers == <<pages_, free_list_, page_table_, next_page_id_, disk, unsaved, model_map>>

\* std::lock_guard<std::mutex> lock_guard(latch_): thread t blocks until the
\* latch is free and takes it
LockGuard(t, op, key, flag) ==
  /\ threads[t] = Idle
  /\ latch_ = 0
  /\ latch_' = t
  /\ threads' = [threads EXCEPT ![t] = InBody(op, key, flag)]
  /\ UNCHANGED <<replacer_, last, ThrOthers>>

\* the body of a method run by the holder of the latch, and ~lock_guard
Unlock(t, op, r, call) ==
  /\ threads[t].op = op
  /\ threads[t].at = "body"
  /\ replacer_' = r
  /\ latch_' = 0
  /\ threads' = [threads EXCEPT ![t] = Idle]
  /\ last' = call
  /\ UNCHANGED ThrOthers

ThrRecordAccessLock(t, f) ==
  /\ replacer_.current_timestamp_ < ThrMaxTime
  /\ LockGuard(t, "RecordAccess", f, FALSE)

ThrRecordAccess(t) ==
  Unlock(t, "RecordAccess", RecordAccess(replacer_, threads[t].key),
         Call("RecordAccess", threads[t].key, FALSE, TRUE, NoValue, NoFrame, NoFrame,
              <<>>, FALSE))

ThrSetEvictableLock(t, f, b) == LockGuard(t, "SetEvictable", f, b)

ThrSetEvictable(t) ==
  Unlock(t, "SetEvictable",
         SetEvictable(replacer_, threads[t].key, threads[t].flag),
         Call("SetEvictable", threads[t].key, threads[t].flag, TRUE, Size(replacer_),
              NoFrame, NoFrame, <<>>, FALSE))

ThrRemoveLock(t, f) == LockGuard(t, "Remove", f, FALSE)

\* the throw of Remove unwinds through ~lock_guard
ThrRemove(t) ==
  Unlock(t, "Remove", ReplacerRemove(replacer_, threads[t].key).r,
         Call("Remove", threads[t].key, FALSE,
              ~ReplacerRemove(replacer_, threads[t].key).thrown, NoValue,
              NoFrame, NoFrame, <<>>, ReplacerRemove(replacer_, threads[t].key).thrown))

ThrEvictLock(t) == LockGuard(t, "Evict", NoFrame, FALSE)

ThrEvict(t) ==
  \E order \in Orders(DOMAIN replacer_.frame_infos_) :
    Unlock(t, "Evict", Evict(replacer_, order).r,
           Call("Evict", NoValue, FALSE, Evict(replacer_, order).ok, Size(replacer_),
                Evict(replacer_, order).frame_id, NoFrame, <<>>, FALSE))

\* the method thread u is in writes curr_size_
WritesSize(u) ==
  LET c == threads[u]
      tracked == c.key \in DOMAIN replacer_.frame_infos_
  IN /\ c.at = "body"
     /\ \/ c.op = "SetEvictable" /\ tracked
             /\ replacer_.frame_infos_[c.key].evictable_ # c.flag
        \/ c.op = "Remove" /\ tracked /\ replacer_.frame_infos_[c.key].evictable_
        \/ c.op = "Evict"
             /\ \E f \in DOMAIN replacer_.frame_infos_ : replacer_.frame_infos_[f].evictable_

\* Size() is entered: no lock_guard
ThrSizeCall(t) ==
  /\ threads[t] = Idle
  /\ threads' = [threads EXCEPT ![t] = InBody("Size", NoFrame, FALSE)]
  /\ UNCHANGED <<replacer_, latch_, last, ThrOthers>>

\* return curr_size_: a read that races with the write of a thread inside a
\* method yields any value
ThrSize(t) ==
  /\ threads[t].op = "Size"
  /\ threads[t].at = "body"
  /\ \E val \in IF \E u \in ThreadIds \ {t} : WritesSize(u)
                THEN 0 .. replacer_.replacer_size_
                ELSE {Size(replacer_)} :
       last' = Call("Size", NoValue, FALSE, TRUE, val, NoFrame, NoFrame, <<>>, FALSE)
  /\ threads' = [threads EXCEPT ![t] = Idle]
  /\ UNCHANGED <<replacer_, latch_, ThrOthers>>

NextLRUThreads ==
  \E t \in ThreadIds :
    \/ \E f \in ThrFrameIds : ThrRecordAccessLock(t, f)
    \/ ThrRecordAccess(t)
    \/ \E f \in ThrFrameIds, b \in BOOLEAN : ThrSetEvictableLock(t, f, b)
    \/ ThrSetEvictable(t)
    \/ \E f \in ThrFrameIds : ThrRemoveLock(t, f)
    \/ ThrRemove(t)
    \/ ThrEvictLock(t)
    \/ ThrEvict(t)
    \/ ThrSizeCall(t)
    \/ ThrSize(t)

SpecLRUThreads == InitLRUThreads /\ [][NextLRUThreads]_vars

----------------------------------------------------------------------------
(* Spec: the buffer pool manager under its clients.                        *)

Bpm ==
  [pages_ |-> pages_, free_list_ |-> free_list_, page_table_ |-> page_table_,
   replacer_ |-> replacer_, next_page_id_ |-> next_page_id_, disk |-> disk]

Init ==
  LET b == NewBufferPoolManager(PoolSize, ReplacerK)
  IN /\ pages_ = b.pages_
     /\ free_list_ = b.free_list_
     /\ page_table_ = b.page_table_
     /\ replacer_ = b.replacer_
     /\ next_page_id_ = b.next_page_id_
     /\ disk = b.disk
     /\ unsaved = {}
     /\ model_map = <<>>
     /\ last = NoCall
     /\ latch_ = 0
     /\ threads = <<>>

\* the manager becomes r.b and the call is recorded
Returns(op, key, flag, r) ==
  /\ pages_' = r.b.pages_
  /\ free_list_' = r.b.free_list_
  /\ page_table_' = r.b.page_table_
  /\ replacer_' = r.b.replacer_
  /\ next_page_id_' = r.b.next_page_id_
  /\ disk' = r.b.disk
  /\ unsaved' = (IF op = "UnpinPage" /\ r.ok /\ flag THEN unsaved \cup {key} ELSE unsaved)
                  \ Written(r.events)
  /\ last' = Call(op, key, flag, r.ok, r.val, r.frame, r.victim, r.events, r.thrown)
  /\ UNCHANGED <<model_map, NoThreads>>

Resident(page_id) == Find(page_table_, page_id).found

FrameOf(page_id) == Find(page_table_, page_id).value

NewPage ==
  /\ replacer_.current_timestamp_ < MaxTime
  /\ \E order \in Orders(DOMAIN replacer_.frame_infos_) :
       Returns("NewPage", INVALID_PAGE_ID, FALSE, NewPgImp(Bpm, order))

\* clients fetch the page ids the manager has allocated (new_page returned them)
FetchPage(page_id) ==
  /\ page_id < next_page_id_
  /\ replacer_.current_timestamp_ < MaxTime
  /\ \E order \in Orders(DOMAIN replacer_.frame_infos_) :
       Returns("FetchPage", page_id, FALSE, FetchPgImp(Bpm, page_id, order))

\* the manager as the holder of a pin on page_id leaves it, having written
\* `data` to the page's buffer
ClientWrote(page_id, data) ==
  [Bpm EXCEPT !.pages_[FrameOf(page_id)].data_ = data]

\* a client that passes is_dirty = true has written to the buffer while it held
\* the pin; one that holds no pin has not
UnpinPage(page_id, is_dirty) ==
  IF is_dirty /\ Resident(page_id) /\ pages_[FrameOf(page_id)].pin_count_ > 0
  THEN \E data \in Data :
         Returns("UnpinPage", page_id, is_dirty,
                 UnpinPgImp(ClientWrote(page_id, data), page_id, is_dirty))
  ELSE Returns("UnpinPage", page_id, is_dirty, UnpinPgImp(Bpm, page_id, is_dirty))

FlushPage(page_id) ==
  Returns("FlushPage", page_id, FALSE, FlushPgImp(Bpm, page_id))

FlushAllPages ==
  Returns("FlushAllPages", INVALID_PAGE_ID, FALSE, FlushAllPgsImp(Bpm))

DeletePage(page_id) ==
  Returns("DeletePage", page_id, FALSE, DeletePgImp(Bpm, page_id))

Next ==
  \/ NewPage
  \/ \E p \in PageIds : FetchPage(p)
  \/ \E p \in PageIds, d \in BOOLEAN : UnpinPage(p, d)
  \/ \E p \in PageIds : FlushPage(p)
  \/ FlushAllPages
  \/ \E p \in PageIds : DeletePage(p)

Spec == Init /\ [][Next]_vars

----------------------------------------------------------------------------
(* SpecBpmThreads: the buffer pool manager called by ThreadCount threads.  *)
(* latch_ holds the three mutexes: the manager's, the page table's and the *)
(* replacer's, each 0 or the thread that holds it.  A thread is "idle",    *)
(* "waiting" (it has called a method, which blocks on the manager's        *)
(* lock_guard), at "bpm" (in the method's body, between two calls), at     *)
(* "page_table_" or "replacer_" (inside a method of that component, under  *)
(* its lock_guard) or at "disk" (inside ReadPage or WritePage).  todo is   *)
(* the calls the method still makes.  The fields of the manager change     *)
(* under its latch, where no other thread reads them: the model writes     *)
(* them as the latch is taken and then walks through the method's calls.   *)

Unlocked == [bpm |-> 0, page_table_ |-> 0, replacer_ |-> 0]

Outside == [at |-> "idle", todo |-> <<>>]

Blocked == [at |-> "waiting", todo |-> <<>>]

\* where a call of the manager goes; pops and pushes of free_list_ go nowhere
Callee(e) ==
  CASE e \in {"Evict", "RecordAccess", "SetEvictable", "ReplacerRemove"} -> "replacer_"
    [] e \in {"Find", "Insert", "Remove"} -> "page_table_"
    [] e \in {"ReadPage", "WritePage"} -> "disk"
    [] OTHER -> "none"

CalleesOf(events) ==
  SelectSeq([i \in 1 .. Len(events) |-> Callee(events[i].e)],
            LAMBDA c : c # "none")

RECURSIVE FlushAllCalls(_, _)
\* FlushAllPgsImp calls page_table_->Find for every frame and WritePage for
\* those it finds
FlushAllCalls(events, frame_id) ==
  IF frame_id >= PoolSize THEN <<>>
  ELSE <<"page_table_">>
       \o (IF \E i \in 1 .. Len(events) : events[i].frame = frame_id
           THEN <<"disk">> ELSE <<>>)
       \o FlushAllCalls(events, frame_id + 1)

\* the calls a method makes under the manager's latch, in order, r being what
\* the method does
Calls(op, r) ==
  CASE op = "NewPage" -> CalleesOf(r.events)
    [] op \in {"FetchPage", "UnpinPage", "FlushPage"} ->
         <<"page_table_">> \o CalleesOf(r.events)
    [] op = "FlushAllPages" -> FlushAllCalls(r.events, 0)
    [] op = "DeletePage" ->
         <<"page_table_">> \o CalleesOf(r.events)
         \o (IF r.thrown THEN <<"replacer_">> ELSE <<>>)

InitBpmThreads ==
  LET b == NewBufferPoolManager(PoolSize, ReplacerK)
  IN /\ pages_ = b.pages_
     /\ free_list_ = b.free_list_
     /\ page_table_ = NewHashTable(ThrBucketSize)
     /\ replacer_ = b.replacer_
     /\ next_page_id_ = b.next_page_id_
     /\ disk = b.disk
     /\ unsaved = {}
     /\ model_map = <<>>
     /\ last = NoCall
     /\ latch_ = Unlocked
     /\ threads = [t \in ThreadIds |-> Outside]

BpmData == <<pages_, free_list_, page_table_, replacer_, next_page_id_, disk>>

BpmOthers == <<unsaved, model_map, last>>

\* thread t calls a method of the manager
BpmCall(t) ==
  /\ threads[t] = Outside
  /\ threads' = [threads EXCEPT ![t] = Blocked]
  /\ UNCHANGED <<BpmData, BpmOthers, latch_>>

\* std::lock_guard<std::mutex> lock_guard(latch_) of the method op, which
\* then does r
BpmLockGuard(t, op, r) ==
  /\ threads[t] = Blocked
  /\ latch_.bpm = 0
  /\ latch_' = [latch_ EXCEPT !.bpm = t]
  /\ threads' = [threads EXCEPT ![t] = [at |-> "bpm", todo |-> Calls(op, r)]]
  /\ pages_' = r.b.pages_
  /\ free_list_' = r.b.free_list_
  /\ page_table_' = r.b.page_table_
  /\ replacer_' = r.b.replacer_
  /\ next_page_id_' = r.b.next_page_id_
  /\ disk' = r.b.disk
  /\ UNCHANGED BpmOthers

ThrNewPage(t) ==
  /\ replacer_.current_timestamp_ < MaxTime
  /\ \E order \in Orders(DOMAIN replacer_.frame_infos_) :
       \E r \in {NewPgImp(Bpm, order)} : BpmLockGuard(t, "NewPage", r)

ThrFetchPage(t, page_id) ==
  /\ page_id < next_page_id_
  /\ replacer_.current_timestamp_ < MaxTime
  /\ \E order \in Orders(DOMAIN replacer_.frame_infos_) :
       \E r \in {FetchPgImp(Bpm, page_id, order)} : BpmLockGuard(t, "FetchPage", r)

ThrUnpinPage(t, page_id, is_dirty) ==
  \E r \in {UnpinPgImp(Bpm, page_id, is_dirty)} : BpmLockGuard(t, "UnpinPage", r)

ThrFlushPage(t, page_id) ==
  \E r \in {FlushPgImp(Bpm, page_id)} : BpmLockGuard(t, "FlushPage", r)

ThrFlushAllPages(t) ==
  \E r \in {FlushAllPgsImp(Bpm)} : BpmLockGuard(t, "FlushAllPages", r)

ThrDeletePage(t, page_id) ==
  \E r \in {DeletePgImp(Bpm, page_id)} : BpmLockGuard(t, "DeletePage", r)

\* the lock_guard on entry of a method of the page table or of the replacer
BpmEnter(t) ==
  /\ threads[t].at = "bpm"
  /\ threads[t].todo # <<>>
  /\ Head(threads[t].todo) \in {"page_table_", "replacer_"}
  /\ latch_[Head(threads[t].todo)] = 0
  /\ latch_' = [latch_ EXCEPT ![Head(threads[t].todo)] = t]
  /\ threads' = [threads EXCEPT ![t].at = Head(threads[t].todo)]
  /\ UNCHANGED <<BpmData, BpmOthers>>

\* BpmLeave with a lock_guard that does not unlock
BpmLeaveLocked(t) ==
  /\ threads[t].at \in {"page_table_", "replacer_"}
  /\ threads' = [threads EXCEPT ![t] = [at |-> "bpm", todo |-> Tail(threads[t].todo)]]
  /\ UNCHANGED <<BpmData, BpmOthers, latch_>>

\* the method of the page table or of the replacer returns
BpmLeave(t) ==
  /\ threads[t].at \in {"page_table_", "replacer_"}
  /\ latch_' = [latch_ EXCEPT ![threads[t].at] = 0]
  /\ threads' = [threads EXCEPT ![t] = [at |-> "bpm", todo |-> Tail(threads[t].todo)]]
  /\ UNCHANGED <<BpmData, BpmOthers>>

\* disk_manager_->ReadPage or WritePage is called
BpmDiskCall(t) ==
  /\ threads[t].at = "bpm"
  /\ threads[t].todo # <<>>
  /\ Head(threads[t].todo) = "disk"
  /\ threads' = [threads EXCEPT ![t].at = "disk"]
  /\ UNCHANGED <<BpmData, BpmOthers, latch_>>

\* and returns
BpmDiskReturn(t) ==
  /\ threads[t].at = "disk"
  /\ threads' = [threads EXCEPT ![t] = [at |-> "bpm", todo |-> Tail(threads[t].todo)]]
  /\ UNCHANGED <<BpmData, BpmOthers, latch_>>

\* the method returns and its lock_guard unlocks the manager's latch
BpmReturn(t) ==
  /\ threads[t].at = "bpm"
  /\ threads[t].todo = <<>>
  /\ latch_' = [latch_ EXCEPT !.bpm = 0]
  /\ threads' = [threads EXCEPT ![t] = Outside]
  /\ UNCHANGED <<BpmData, BpmOthers>>

\* thread t, blocked on the manager's latch, takes it when it is free
BpmLocks(t) ==
  /\ threads[t] = Blocked
  /\ latch_.bpm = 0
  /\ \/ ThrNewPage(t)
     \/ \E p \in PageIds : ThrFetchPage(t, p)
     \/ \E p \in PageIds, d \in BOOLEAN : ThrUnpinPage(t, p, d)
     \/ \E p \in PageIds : ThrFlushPage(t, p)
     \/ ThrFlushAllPages(t)
     \/ \E p \in PageIds : ThrDeletePage(t, p)

\* thread t goes on inside a method
BpmRuns(t) ==
  \/ BpmEnter(t)
  \/ BpmLeave(t)
  \/ BpmDiskCall(t)
  \/ BpmDiskReturn(t)
  \/ BpmReturn(t)

NextBpmThreads ==
  \E t \in ThreadIds :
    \/ BpmCall(t)
    \/ BpmLocks(t)
    \/ BpmRuns(t)

SpecBpmThreads == InitBpmThreads /\ [][NextBpmThreads]_vars

\* a thread that can run does run, disk I/O returns, and a thread that waits
\* for the manager's latch gets it when it is unlocked again and again
SpecBpmThreadsFair ==
  /\ SpecBpmThreads
  /\ \A t \in ThreadIds : WF_vars(BpmRuns(t)) /\ SF_vars(BpmLocks(t))

----------------------------------------------------------------------------
(* What the claims speak of.                                               *)

\* the manager's own state
Manager == <<pages_, free_list_, page_table_, replacer_, next_page_id_, disk>>

\* frame f holds a page the directory binds to it
ResidentFrame(f) ==
  /\ Find(page_table_, pages_[f].page_id_).found
  /\ Find(page_table_, pages_[f].page_id_).value = f

\* frame f is tracked by the replacer and evictable there
Evictable(r, f) == f \in DOMAIN r.frame_infos_ /\ r.frame_infos_[f].evictable_

\* the positions of the events named e in a call's events
Positions(events, e) == {i \in 1 .. Len(events) : events[i].e = e}

\* a call that took a frame for a page: new_page, or fetch_page on a miss
Acquires(call) ==
  /\ call.op \in {"NewPage", "FetchPage"}
  /\ call.ok
  /\ Positions(call.events, "Insert") # {}

----------------------------------------------------------------------------
(* C1: a frame whose pin_count is greater than zero is never the victim:   *)
(* over a new_page or fetch_page step, every frame that was pinned before  *)
(* the step is not the frame the call evicted or took, keeps its page id   *)
(* and its buffer, and is still bound to its page in the directory.        *)

C1_PinnedFrameKept(f) ==
  /\ last'.victim # f
  /\ Acquires(last') => last'.frame # f
  /\ pages_'[f].page_id_ = pages_[f].page_id_
  /\ pages_'[f].data_ = pages_[f].data_
  /\ pages_'[f].pin_count_ >= pages_[f].pin_count_
  /\ Find(page_table_', pages_[f].page_id_) = [found |-> TRUE, value |-> f]

----------------------------------------------------------------------------
(* C2: when new_page or fetch_page evicts a victim, WritePage(victim page  *)
(* id, victim buffer) is issued iff the victim's is_dirty_ was true, once, *)
(* before the victim's directory binding is removed and before the frame   *)
(* is bound again; a clean victim leaves the disk as it was.               *)

----------------------------------------------------------------------------
(* C3: a frame that is resident and unpinned, whose page was unpinned with *)
(* is_dirty = true and has not been written to disk since, has is_dirty_   *)
(* true, whatever calls were made on this or any other page.               *)

C3_DirtyUntilWritten ==
  \A f \in Frames :
    (/\ ResidentFrame(f)
     /\ pages_[f].pin_count_ = 0
     /\ pages_[f].page_id_ \in unsaved) => pages_[f].is_dirty_

\* after new_page, new_page, unpin_page(0, true), flush_page(1) frame 0 holds
\* the modified page 0 with is_dirty_ false
C3_Lost ==
  /\ last.op = "FlushPage"
  /\ \E f \in Frames :
       /\ ResidentFrame(f) /\ pages_[f].pin_count_ = 0
       /\ pages_[f].page_id_ \in unsaved /\ ~pages_[f].is_dirty_

----------------------------------------------------------------------------
(* C4: unpin_page(P, d) on a page resident in frame F with pin count n > 0 *)
(* returns true and leaves n - 1, and F is evictable in the replacer after *)
(* it iff n - 1 = 0; on a page whose pin count is 0 it returns false; and  *)
(* between the unpins no call but fetch_page(P) or unpin_page(P, d)        *)
(* changes a pinned page's frame, pin count or non-evictability.  So after *)
(* fetch_page(P) left pin count n, exactly n calls of unpin_page(P, d)     *)
(* return true and only the n-th makes F evictable.                        *)

C4_UnpinStep ==
  LET hit == Find(page_table_, last'.key)
      f == hit.value
  IN IF hit.found /\ pages_[f].pin_count_ > 0
     THEN /\ last'.ok
          /\ pages_'[f].pin_count_ = pages_[f].pin_count_ - 1
          /\ Find(page_table_', last'.key) = hit
          /\ Evictable(replacer_', f) <=> pages_'[f].pin_count_ = 0
          /\ ~Evictable(replacer_, f)
     ELSE ~last'.ok

C4_OtherStep(p) ==
  LET hit == Find(page_table_, p)
      f == hit.value
  IN (hit.found /\ pages_[f].pin_count_ > 0) =>
       /\ Find(page_table_', p) = hit
       /\ pages_'[f].pin_count_ = pages_[f].pin_count_
       /\ ~Evictable(replacer_', f)

C4_UnpinCounts ==
  [][/\ last'.op = "UnpinPage" => C4_UnpinStep
     /\ \A p \in PageIds :
          ~(last'.op \in {"UnpinPage", "FetchPage"} /\ last'.key = p) => C4_OtherStep(p)
     /\ \A p \in PageIds :
          (last'.op = "FetchPage" /\ last'.key = p /\ Find(page_table_, p).found) =>
             /\ last'.ok
             /\ last'.frame = Find(page_table_, p).value
             /\ pages_'[last'.frame].pin_count_ = pages_[last'.frame].pin_count_ + 1
             /\ ~Evictable(replacer_', last'.frame)]_vars

\* the first of two unpins has left the page pinned and its frame not evictable
C4_Witness ==
  /\ last.op = "UnpinPage"
  /\ last.ok
  /\ pages_[last.frame].pin_count_ = 1
  /\ ~Evictable(replacer_, last.frame)

----------------------------------------------------------------------------
(* C5: unpin_page(P, d) returns false and changes nothing of the manager   *)
(* when P is not resident or its pin count is 0; otherwise it returns      *)
(* true, decrements the pin count by one and sets is_dirty_ to             *)
(* (is_dirty_ or d), so that it never clears is_dirty_.                    *)

C5_UnpinEffect ==
  [][last'.op = "UnpinPage" =>
       LET hit == Find(page_table_, last'.key)
           f == hit.value
       IN IF ~hit.found \/ pages_[f].pin_count_ = 0
          THEN ~last'.ok /\ UNCHANGED Manager
          ELSE /\ last'.ok
               /\ pages_'[f].pin_count_ = pages_[f].pin_count_ - 1
               /\ pages_'[f].is_dirty_ = (pages_[f].is_dirty_ \/ last'.flag)
               /\ pages_'[f].page_id_ = pages_[f].page_id_
               /\ \A g \in Frames \ {f} : pages_'[g] = pages_[g]
               /\ UNCHANGED <<free_list_, page_table_, next_page_id_, disk>>]_vars

\* an unpin with is_dirty = false has left a dirty page dirty
C5_Witness ==
  /\ last.op = "UnpinPage"
  /\ last.ok
  /\ ~last.flag
  /\ pages_[last.frame].is_dirty_

----------------------------------------------------------------------------
(* C6: flush_page(P) returns false and writes nothing when P is not        *)
(* resident; when P is resident in frame F it writes F's buffer to disk    *)
(* under page id P, returns true, and F's is_dirty_ is false afterwards.   *)

C6_FlushClearsOwnBit ==
  last.op = "FlushPage" =>
    /\ last.ok <=> Find(page_table_, last.key).found
    /\ ~last.ok => last.events = <<>>
    /\ last.ok =>
         LET f == Find(page_table_, last.key).value
         IN /\ last.frame = f
            /\ last.events = <<Ev("WritePage", last.key, f, pages_[f].data_)>>
            /\ disk[last.key] = pages_[f].data_
            /\ ~pages_[f].is_dirty_

\* flush_page(P) returned true and P's frame is still dirty
C6_StillDirty ==
  /\ last.op = "FlushPage"
  /\ last.ok
  /\ pages_[last.frame].is_dirty_
  /\ disk[last.key] = pages_[last.frame].data_

----------------------------------------------------------------------------
(* C7: delete_page(P) returns true when P is not resident; returns false   *)
(* and leaves the frame, the directory, the replacer and the free list as  *)
(* they were when P is resident and pinned; and when P is resident and     *)
(* unpinned it writes the page back if it is dirty, removes the frame from *)
(* the replacer and P from the directory, appends the frame to the free    *)
(* list, where it then is exactly once, and returns true.                  *)

C7_DeleteEffect ==
  [][last'.op = "DeletePage" =>
       LET p == last'.key
           hit == Find(page_table_, p)
           f == hit.value
           writes == Positions(last'.events, "WritePage")
       IN IF ~hit.found THEN last'.ok
          ELSE IF pages_[f].pin_count_ > 0
          THEN /\ ~last'.ok
               /\ pages_'[f] = pages_[f]
               /\ UNCHANGED <<page_table_, replacer_, free_list_>>
          ELSE /\ last'.ok
               /\ ~last'.thrown
               /\ pages_[f].is_dirty_ <=> writes # {}
               /\ \A w \in writes :
                    last'.events[w] = Ev("WritePage", p, f, pages_[f].data_)
               /\ pages_[f].is_dirty_ => disk' = [disk EXCEPT ![p] = pages_[f].data_]
               /\ f \in DOMAIN replacer_.frame_infos_
               /\ f \notin DOMAIN replacer_'.frame_infos_
               /\ ~Find(page_table_', p).found
               /\ free_list_' = Append(free_list_, f)
               /\ Cardinality({i \in 1 .. Len(free_list_') : free_list_'[i] = f}) = 1]_vars

\* a dirty unpinned page was deleted: its frame is last in the free list
C7_Witness ==
  /\ last.op = "DeletePage"
  /\ last.ok
  /\ Positions(last.events, "WritePage") # {}
  /\ free_list_ # <<>>
  /\ free_list_[Len(free_list_)] = last.frame
  /\ ~Find(page_table_, last.key).found

----------------------------------------------------------------------------
(* C8: new_page returns null iff the free list is empty and the replacer   *)
(* has no evictable frame, which is when every frame is pinned; a null     *)
(* return changes nothing of the manager, next_page_id_ included; a        *)
(* successful call returns next_page_id_, which it alone advances, by one, *)
(* and leaves the page in its frame with pin count 1 and is_dirty_ false.  *)

C8_NewPage ==
  [][/\ last'.op = "NewPage" =>
          LET none_free == free_list_ = <<>>
              none_evictable == \A f \in DOMAIN replacer_.frame_infos_ :
                                  ~replacer_.frame_infos_[f].evictable_
              all_pinned == \A f \in Frames : pages_[f].pin_count_ > 0
          IN /\ ~last'.ok <=> (none_free /\ none_evictable)
             /\ ~last'.ok <=> (none_free /\ all_pinned)
             /\ ~last'.ok => UNCHANGED Manager
             /\ last'.ok =>
                  /\ last'.val = next_page_id_
                  /\ next_page_id_' = next_page_id_ + 1
                  /\ last'.frame \in Frames
                  /\ pages_'[last'.frame].page_id_ = last'.val
                  /\ pages_'[last'.frame].pin_count_ = 1
                  /\ ~pages_'[last'.frame].is_dirty_
                  /\ Find(page_table_', last'.val) =
                       [found |-> TRUE, value |-> last'.frame]
     /\ next_page_id_' # next_page_id_ => (last'.op = "NewPage" /\ last'.ok)]_vars

\* with every frame in use, the third page id was given a frame by evicting a
\* clean page: no disk write
C8_Witness ==
  /\ last.op = "NewPage"
  /\ last.ok
  /\ last.val = PoolSize
  /\ last.victim = 0
  /\ last.frame = 0
  /\ Positions(last.events, "WritePage") = {}
  /\ next_page_id_ = PoolSize + 1

\* new_page returned null
C8_Null == last.op = "NewPage" /\ ~last.ok

----------------------------------------------------------------------------
(* C9: the hash table is a map.  After any inserts and removes, directory  *)
(* doublings and bucket splits among them, find(K) returns for every key K *)
(* the value of the last insert(K, V) no remove(K) followed, and nothing   *)
(* otherwise; no key has two entries in the buckets, and the buckets hold  *)
(* as many entries as the map has keys.                                    *)

\* the entries <<bucket, position>> of the table that hold key k
EntriesOf(ht, k) ==
  {e \in (1 .. Len(ht.buckets)) \X (1 .. ht.bucket_size_) :
     /\ e[2] <= Len(ht.buckets[e[1]].list_)
     /\ ht.buckets[e[1]].list_[e[2]][1] = k}

C9_TableIsMap ==
  /\ \A k \in Keys :
       /\ Find(page_table_, k) =
            [found |-> model_map[k] # NoValue, value |-> model_map[k]]
       /\ Cardinality(EntriesOf(page_table_, k)) = IF model_map[k] # NoValue THEN 1 ELSE 0
  /\ \A b \in 1 .. Len(page_table_.buckets) :
       /\ Len(page_table_.buckets[b].list_) <= page_table_.bucket_size_
       /\ \E i \in 1 .. Len(page_table_.dir_) : page_table_.dir_[i] = b
  /\ last.op = "Remove" => (last.ok => ~Find(page_table_, last.key).found)
  /\ last.op = "Find" =>
       /\ last.ok <=> model_map[last.key] # NoValue
       /\ last.val = model_map[last.key]

\* an insert into a table that has doubled twice and split into three buckets
\* or more, one of them empty, and that holds three keys
C9_Witness ==
  /\ last.op = "Insert"
  /\ page_table_.global_depth_ >= 2
  /\ page_table_.num_buckets_ >= 3
  /\ Cardinality({k \in Keys : model_map[k] # NoValue}) = 3
  /\ \E b \in 1 .. Len(page_table_.buckets) : page_table_.buckets[b].list_ = <<>>
  /\ model_map[last.key] = MaxValue

----------------------------------------------------------------------------
(* C10: evict() returns, among the frames tracked and evictable, one with  *)
(* fewer than k recorded accesses if there is one, and of those the one    *)
(* whose earliest retained timestamp is smallest; if every evictable frame *)
(* has k recorded accesses, the one whose k-th most recent timestamp is    *)
(* smallest; never a frame that is not evictable, and nothing when no      *)
(* frame is evictable.  With k = 2 and capacity 7, after accesses to       *)
(* 1..6, 1..6 and 1, all evictable, the evictions return 2, 3, 4, 5, 6, 1. *)

EarliestRetained(r, f) == r.frame_infos_[f].time_sequence_[1]

KthMostRecent(r, f) ==
  r.frame_infos_[f].time_sequence_[Len(r.frame_infos_[f].time_sequence_) - r.k_ + 1]

RECURSIVE Ascending(_)
Ascending(S) == IF S = {} THEN <<>> ELSE <<Min(S)>> \o Ascending(S \ {Min(S)})

RECURSIVE AccessAll(_, _)
\* record_access and set_evictable(true) for each frame of a sequence
AccessAll(r, frames) ==
  IF frames = <<>> THEN r
  ELSE AccessAll(SetEvictable(RecordAccess(r, Head(frames)), Head(frames), TRUE),
                 Tail(frames))

RECURSIVE EvictOrder(_, _)
\* the frames n calls of evict return
EvictOrder(r, n) ==
  IF n = 0 THEN <<>>
  ELSE LET e == Evict(r, Ascending(DOMAIN r.frame_infos_))
       IN <<e.frame_id>> \o EvictOrder(e.r, n - 1)

S1Replacer ==
  AccessAll(AccessAll(AccessAll(NewReplacer(7, 2), <<1, 2, 3, 4, 5, 6>>),
                      <<1, 2, 3, 4, 5, 6>>),
            <<1>>)

C10_S1 ==
  /\ Size(S1Replacer) = 6
  /\ EvictOrder(S1Replacer, 7) = <<2, 3, 4, 5, 6, 1, NoFrame>>

C10_Victim ==
  LET r == replacer_
      evictable == {f \in DOMAIN r.frame_infos_ : r.frame_infos_[f].evictable_}
      young == {f \in evictable : Len(r.frame_infos_[f].time_sequence_) < r.k_}
      v == last'.frame
  IN IF evictable = {}
     THEN ~last'.ok /\ v = NoFrame /\ replacer_' = replacer_
     ELSE /\ last'.ok
          /\ v \in evictable
          /\ young # {} =>
               /\ v \in young
               /\ \A g \in young : EarliestRetained(r, v) <= EarliestRetained(r, g)
          /\ young = {} =>
               \A g \in evictable : KthMostRecent(r, v) <= KthMostRecent(r, g)
          /\ replacer_'.frame_infos_ = Erase(r.frame_infos_, v)

C10_EvictPolicy == [][C10_S1 /\ (last'.op = "Evict" => C10_Victim)]_vars

\* evict has returned a frame with fewer than k accesses and left a frame that
\* is evictable, has k accesses, and had the oldest timestamp of all
C10_Witness ==
  /\ last.op = "Evict"
  /\ last.ok
  /\ \E g \in DOMAIN replacer_.frame_infos_ :
       /\ replacer_.frame_infos_[g].evictable_
       /\ Len(replacer_.frame_infos_[g].time_sequence_) = replacer_.k_
       /\ replacer_.frame_infos_[g].time_sequence_[1] = 0

----------------------------------------------------------------------------
(* C11: evict() returns a frame F iff size() > 0 before the call; after a  *)
(* successful evict size() is one less and F is untracked, the records of  *)
(* the other frames being as before; an unsuccessful evict changes nothing *)
(* of the replacer.                                                        *)

C11_EvictStep ==
  /\ last'.ok <=> Size(replacer_) > 0
  /\ last'.ok =>
       /\ last'.frame \in DOMAIN replacer_.frame_infos_
       /\ Size(replacer_') = Size(replacer_) - 1
       /\ last'.frame \notin DOMAIN replacer_'.frame_infos_
       /\ replacer_'.frame_infos_ = Erase(replacer_.frame_infos_, last'.frame)
       /\ replacer_'.current_timestamp_ = replacer_.current_timestamp_
  /\ ~last'.ok => last'.frame = NoFrame /\ replacer_' = replacer_

C11_EvictIffSize == [][last'.op = "Evict" => C11_EvictStep]_vars

\* evict has returned a frame when size() was 2: one evictable frame is left
C11_Witness ==
  /\ last.op = "Evict"
  /\ last.ok
  /\ last.val = 2
  /\ Size(replacer_) = 1
  /\ \E g \in DOMAIN replacer_.frame_infos_ : replacer_.frame_infos_[g].evictable_

\* evict has returned nothing although frames are tracked
C11_Refused ==
  /\ last.op = "Evict"
  /\ ~last.ok
  /\ DOMAIN replacer_.frame_infos_ # {}

----------------------------------------------------------------------------
(* C12: set_evictable(F, flag) on an untracked frame changes nothing; on a *)
(* tracked frame it sets F's flag, and size() increases by exactly one     *)
(* when F was not evictable and flag is true, decreases by exactly one     *)
(* when F was evictable and flag is false, and is unchanged when F already *)
(* had that flag.  (As stated, without the condition on F's old flag, the  *)
(* property is C12_AsStated.)                                              *)

C12_Tracked == last'.key \in DOMAIN replacer_.frame_infos_

C12_OldFlag == replacer_.frame_infos_[last'.key].evictable_

C12_FlagSet ==
  /\ DOMAIN replacer_'.frame_infos_ = DOMAIN replacer_.frame_infos_
  /\ \A g \in DOMAIN replacer_.frame_infos_ :
       replacer_'.frame_infos_[g] =
         IF g = last'.key
         THEN [replacer_.frame_infos_[g] EXCEPT !.evictable_ = last'.flag]
         ELSE replacer_.frame_infos_[g]
  /\ replacer_'.current_timestamp_ = replacer_.current_timestamp_

C12_SetEvictableStep ==
  IF ~C12_Tracked THEN replacer_' = replacer_
  ELSE /\ C12_FlagSet
       /\ Size(replacer_') =
            IF ~C12_OldFlag /\ last'.flag THEN Size(replacer_) + 1
            ELSE IF C12_OldFlag /\ ~last'.flag THEN Size(replacer_) - 1
            ELSE Size(replacer_)

C12_SetEvictableCounts == [][last'.op = "SetEvictable" => C12_SetEvictableStep]_vars

\* the property without the condition on the old flag
C12_AsStated ==
  [][last'.op = "SetEvictable" =>
       IF ~C12_Tracked THEN replacer_' = replacer_
       ELSE Size(replacer_') =
              IF last'.flag THEN Size(replacer_) + 1 ELSE Size(replacer_) - 1]_vars

\* set_evictable(F, true) has made a tracked frame evictable: size() went from
\* 1 to 2
C12_Witness ==
  /\ last.op = "SetEvictable"
  /\ last.flag
  /\ last.key \in DOMAIN replacer_.frame_infos_
  /\ last.val = 1
  /\ Size(replacer_) = 2

\* set_evictable(F, true) on a frame that was evictable already: size() is as
\* it was
C12_Repeated ==
  /\ last.op = "SetEvictable"
  /\ last.flag
  /\ last.key \in DOMAIN replacer_.frame_infos_
  /\ last.val = 1
  /\ Size(replacer_) = 1
  /\ Cardinality(DOMAIN replacer_.frame_infos_) = 1

----------------------------------------------------------------------------
(* C13: remove(F) of the replacer throws when F is tracked and not         *)
(* evictable, leaving F's record and size() as they were; changes nothing  *)
(* when F is untracked; and otherwise erases F's record and decrements     *)
(* size() by exactly one.  No other operation of the replacer throws, and  *)
(* every record holds between 1 and k timestamps, so that the front() of   *)
(* evict's comparator and the pop() of record_access are always defined.   *)

C13_RemoveStep ==
  LET r == replacer_
      f == last'.key
  IN IF f \notin DOMAIN r.frame_infos_
     THEN ~last'.thrown /\ replacer_' = r
     ELSE IF ~r.frame_infos_[f].evictable_
     THEN /\ last'.thrown
          /\ replacer_' = r
     ELSE /\ ~last'.thrown
          /\ replacer_'.frame_infos_ = Erase(r.frame_infos_, f)
          /\ Size(replacer_') = Size(r) - 1
          /\ replacer_'.current_timestamp_ = r.current_timestamp_

C13_HistoriesDefined ==
  \A g \in DOMAIN replacer_'.frame_infos_ :
    /\ Len(replacer_'.frame_infos_[g].time_sequence_) >= 1
    /\ Len(replacer_'.frame_infos_[g].time_sequence_) <= replacer_'.k_

C13_RemoveFatal ==
  [][/\ last'.op = "Remove" => C13_RemoveStep
     /\ last'.op \in {"RecordAccess", "SetEvictable", "Evict", "Size"} => ~last'.thrown
     /\ C13_HistoriesDefined]_vars

\* remove(F) has thrown: F is still tracked and not evictable, beside an
\* evictable frame that size() counts
C13_Witness ==
  /\ last.op = "Remove"
  /\ last.thrown
  /\ last.key \in DOMAIN replacer_.frame_infos_
  /\ ~replacer_.frame_infos_[last.key].evictable_
  /\ Size(replacer_) = 1

\* remove(F) has erased the record of an evictable frame
C13_Removed ==
  /\ last.op = "Remove"
  /\ ~last.thrown
  /\ last.key \notin DOMAIN replacer_.frame_infos_
  /\ Size(replacer_) = 1
  /\ replacer_.current_timestamp_ >= 3

----------------------------------------------------------------------------
(* C14: every public operation holds its component's lock from entry to    *)
(* exit: a thread inside a method of the replacer holds the replacer's     *)
(* latch, the latch is held only by a thread inside a method, and so no    *)
(* thread is inside a method (size() included) while another thread is     *)
(* inside one.                                                             *)

C14_LatchHeld ==
  /\ \A t \in DOMAIN threads : threads[t].at = "body" => latch_ = t
  /\ latch_ # 0 => threads[latch_].at = "body"
  /\ \A t, u \in DOMAIN threads :
       threads[t].at = "body" /\ threads[u].at = "body" => t = u

\* a thread is inside Size() while another holds the latch inside a method
\* that writes curr_size_
C14_RacingRead ==
  \E t, u \in DOMAIN threads :
    /\ t # u
    /\ threads[t].op = "Size"
    /\ threads[t].at = "body"
    /\ latch_ = u
    /\ WritesSize(u)

\* Size() has returned 2 although one access was recorded in all, so that
\* curr_size_ was never more than 1
C14_TornSize ==
  /\ last.op = "Size"
  /\ last.val = 2
  /\ replacer_.current_timestamp_ = 1

----------------------------------------------------------------------------
(* C15: the grow-and-split loop of insert terminates: in every reachable   *)
(* state of the table, for every key and value, the loop exits with the    *)
(* key stored, after at most one doubling of the directory and one split   *)
(* of a bucket for each bit of the keys' hashes, and the global depth      *)
(* never exceeds that number of bits.                                      *)

\* the number of low bits in which the hashes of distinct keys differ
KeyBits == Min({n \in 0 .. MaxKey : ShiftLeft1(n) >= MaxKey})

C15_InsertTerminates ==
  /\ page_table_.global_depth_ <= KeyBits
  /\ \A k \in Keys, v \in Values :
       LET r == InsertLoop(page_table_, k, v, 0)
       IN /\ r.done
          /\ r.iters <= 2 * KeyBits
          /\ r.iters = Len(r.trace)
          /\ Find(r.ht, k).found
          /\ Find(r.ht, k).value = v
  /\ last.op = "Insert" => last.ok

\* insert has doubled the directory and split a bucket, found the bucket of
\* its key still full because the split left every entry on one side, doubled
\* and split again, and stored the key
C15_Witness ==
  /\ last.op = "Insert"
  /\ last.ok
  /\ last.events = <<"Double", "Split", "Double", "Split">>
  /\ Find(page_table_, last.key).found

----------------------------------------------------------------------------
(* C16: after any operation of the table the directory has 2^global_depth  *)
(* slots, every bucket's local depth is between 0 and the global depth,    *)
(* and the slots that reference a bucket B are exactly the slots that      *)
(* agree in their low local_depth(B) bits: two slots that reference B      *)
(* agree in those bits, and a slot that agrees in them with a slot of B    *)
(* references B too.                                                       *)

\* the low n bits of slot index i
LowBits(i, n) == BitAnd(i, ShiftLeft1(n) - 1)

C16_DirectoryShape ==
  LET ht == page_table_
      slots == 0 .. (Len(ht.dir_) - 1)
      depth(i) == ht.buckets[ht.dir_[i + 1]].depth_
  IN /\ Len(ht.dir_) = ShiftLeft1(ht.global_depth_)
     /\ \A b \in 1 .. Len(ht.buckets) :
          /\ ht.buckets[b].depth_ >= 0
          /\ ht.buckets[b].depth_ <= ht.global_depth_
          /\ \E i \in slots : ht.dir_[i + 1] = b
     /\ \A i \in slots : ht.dir_[i + 1] \in 1 .. Len(ht.buckets)
     /\ \A i, j \in slots :
          ht.dir_[i + 1] = ht.dir_[j + 1] <=> LowBits(i, depth(i)) = LowBits(j, depth(i))

\* an insert has doubled the directory and split a bucket: the directory has
\* four slots, two of them referencing one bucket of local depth 1, the other
\* two referencing a bucket of local depth 2 each
C16_Witness ==
  /\ last.op = "Insert"
  /\ "Double" \in {last.events[i] : i \in DOMAIN last.events}
  /\ "Split" \in {last.events[i] : i \in DOMAIN last.events}
  /\ page_table_.global_depth_ = 2
  /\ \E i, j \in 0 .. 3 :
       /\ i # j
       /\ page_table_.dir_[i + 1] = page_table_.dir_[j + 1]
       /\ page_table_.buckets[page_table_.dir_[i + 1]].depth_ = 1
  /\ \E i \in 0 .. 3 : page_table_.buckets[page_table_.dir_[i + 1]].depth_ = 2

----------------------------------------------------------------------------
(* C17: in every reachable state of the buffer pool manager the frames of  *)
(* the free list and the resident frames (those the directory binds) are   *)
(* disjoint and together are the pool; no frame is twice in the free list; *)
(* the directory binds each page id at most once and no two page ids to    *)
(* one frame; the frames the directory binds are the frames that hold the  *)
(* page bound to them, page_id_ of such a frame being the page id bound.   *)

\* the bindings <<page id, frame id>> the directory's buckets hold
Bindings(ht) ==
  UNION {{ht.buckets[b].list_[i] : i \in 1 .. Len(ht.buckets[b].list_)} :
           b \in 1 .. Len(ht.buckets)}

FreeFrames == {free_list_[i] : i \in 1 .. Len(free_list_)}

ResidentFrames == {kv[2] : kv \in Bindings(page_table_)}

C17_Partition ==
  /\ FreeFrames \cap ResidentFrames = {}
  /\ FreeFrames \cup ResidentFrames = Frames
  /\ Cardinality(FreeFrames) = Len(free_list_)
  /\ \A kv, kw \in Bindings(page_table_) : kv[1] = kw[1] \/ kv[2] = kw[2] => kv = kw
  /\ \A kv \in Bindings(page_table_) :
       /\ Find(page_table_, kv[1]).found
       /\ Find(page_table_, kv[1]).value = kv[2]
       /\ pages_[kv[2]].page_id_ = kv[1]
  /\ ResidentFrames = {f \in Frames : ResidentFrame(f)}

\* a page has been deleted after the pool had been full: its frame is the
\* free list, the other frame is resident
C17_Witness ==
  /\ last.op = "DeletePage"
  /\ last.ok
  /\ Len(free_list_) = 1
  /\ free_list_[1] = last.frame
  /\ Cardinality(ResidentFrames) = PoolSize - 1
  /\ next_page_id_ > PoolSize

----------------------------------------------------------------------------
(* C18: when the free list is not empty, new_page and fetch_page on a miss *)
(* take the frame at the front of the free list: they succeed with that    *)
(* frame, the free list loses its front, evict is not called, nothing is   *)
(* written to disk, and every directory binding and every replacer record  *)
(* there was before is still there, unchanged.                             *)

\* the step is a new_page, or a fetch_page of a page that was not resident
C18_Acquiring ==
  \/ last'.op = "NewPage"
  \/ last'.op = "FetchPage" /\ ~Resident(last'.key)

C18_FromFreeList ==
  /\ last'.ok
  /\ last'.frame = Head(free_list_)
  /\ last'.victim = NoFrame
  /\ free_list_' = Tail(free_list_)
  /\ last'.events[1] = Ev("PopFree", INVALID_PAGE_ID, Head(free_list_), 0)
  /\ Positions(last'.events, "Evict") = {}
  /\ Positions(last'.events, "WritePage") = {}
  /\ Positions(last'.events, "Remove") = {}
  /\ disk' = disk
  /\ Bindings(page_table_) \subseteq Bindings(page_table_')
  /\ Head(free_list_) \notin DOMAIN replacer_.frame_infos_
  /\ \A g \in DOMAIN replacer_.frame_infos_ :
       /\ g \in DOMAIN replacer_'.frame_infos_
       /\ replacer_'.frame_infos_[g] = replacer_.frame_infos_[g]
  /\ \A g \in Frames \ {Head(free_list_)} : pages_'[g] = pages_[g]

C18_FreeListFirst ==
  [][C18_Acquiring /\ free_list_ # <<>> => C18_FromFreeList]_vars

\* fetch_page has missed and taken its frame from the free list although the
\* replacer held an evictable frame, which is still resident and evictable
C18_Witness ==
  /\ last.op = "FetchPage"
  /\ last.ok
  /\ last.events[1].e = "PopFree"
  /\ \E g \in Frames \ {last.frame} : ResidentFrame(g) /\ Evictable(replacer_, g)

\* new_page likewise
C18_NewPageWitness ==
  /\ last.op = "NewPage"
  /\ last.ok
  /\ last.events[1].e = "PopFree"
  /\ \E g \in Frames \ {last.frame} : ResidentFrame(g) /\ Evictable(replacer_, g)

----------------------------------------------------------------------------
(* C19: flush_page(P) and delete_page(P) leave is_dirty, pin_count and     *)
(* page_id of every frame that holds a page other than P as they were,     *)
(* frame 0 included; flush_all_pages changes is_dirty of resident frames   *)
(* only, which are those it flushes.                                       *)

C19_Kept(g) ==
  /\ pages_'[g].is_dirty_ = pages_[g].is_dirty_
  /\ pages_'[g].pin_count_ = pages_[g].pin_count_
  /\ pages_'[g].page_id_ = pages_[g].page_id_

C19_OthersUntouched ==
  [][/\ last'.op \in {"FlushPage", "DeletePage"} =>
          \A g \in Frames :
            ResidentFrame(g) /\ pages_[g].page_id_ # last'.key => C19_Kept(g)
     /\ last'.op = "FlushAllPages" =>
          \A g \in Frames : ~ResidentFrame(g) => C19_Kept(g)]_vars

\* flush_page of the page in frame 1 has left frame 0, which holds a pinned
\* page modified and not written, with is_dirty_ false
C19_Frame0Cleared ==
  /\ last.op = "FlushPage"
  /\ last.ok
  /\ last.frame = 1
  /\ ResidentFrame(0)
  /\ pages_[0].pin_count_ > 0
  /\ pages_[0].page_id_ \in unsaved
  /\ ~pages_[0].is_dirty_

----------------------------------------------------------------------------
(* C20: flush_all_pages writes each resident page exactly once, from the   *)
(* frame the directory binds to it and with that frame's buffer, and       *)
(* writes nothing else, in particular nothing from a frame of the free     *)
(* list; afterwards the disk holds the buffer of every resident page.      *)

C20_FlushAllStep ==
  /\ \A i \in DOMAIN last'.events :
       /\ last'.events[i].e = "WritePage"
       /\ last'.events[i].frame \notin FreeFrames
       /\ <<last'.events[i].page, last'.events[i].frame>> \in Bindings(page_table_)
       /\ last'.events[i].data = pages_[last'.events[i].frame].data_
  /\ \A kv \in Bindings(page_table_) :
       /\ Cardinality({i \in DOMAIN last'.events : last'.events[i].page = kv[1]}) = 1
       /\ disk'[kv[1]] = pages_[kv[2]].data_
  /\ \A p \in PageIds : ~Resident(p) => disk'[p] = disk[p]

C20_FlushAllExact == [][last'.op = "FlushAllPages" => C20_FlushAllStep]_vars

\* after flush_all_pages the disk holds, for a resident page, not the buffer
\* of its frame but the stale buffer of a frame of the free list
C20_StaleOnDisk ==
  /\ last.op = "FlushAllPages"
  /\ \E p \in PageIds, g \in FreeFrames :
       /\ Resident(p)
       /\ disk[p] # pages_[FrameOf(p)].data_
       /\ pages_[g].page_id_ = p
       /\ disk[p] = pages_[g].data_

----------------------------------------------------------------------------
(* C21: the manager keeps the replacer consistent with the pin counts: in  *)
(* every reachable state every resident frame is tracked by the replacer   *)
(* and evictable there iff its pin_count is 0, and no frame of the free    *)
(* list is tracked; so the access the manager records for the frame a      *)
(* new_page or fetch_page returns is never dropped (the frame's newest     *)
(* timestamp is the one just drawn), and delete_page never makes the       *)
(* replacer's remove throw.                                                *)

C21_ReplacerFollowsPins ==
  /\ \A f \in ResidentFrames :
       /\ f \in DOMAIN replacer_.frame_infos_
       /\ replacer_.frame_infos_[f].evictable_ <=> pages_[f].pin_count_ = 0
  /\ \A f \in FreeFrames : f \notin DOMAIN replacer_.frame_infos_
  /\ DOMAIN replacer_.frame_infos_ \subseteq Frames
  /\ last.op \in {"NewPage", "FetchPage"} /\ last.ok =>
       LET ts == replacer_.frame_infos_[last.frame].time_sequence_
       IN ts[Len(ts)] = replacer_.current_timestamp_ - 1
  /\ ~last.thrown

\* delete_page has removed from the replacer the record of an unpinned frame
\* while the other frame, pinned twice and unpinned once, is tracked and not
\* evictable
C21_Witness ==
  /\ last.op = "DeletePage"
  /\ last.ok
  /\ last.frame \in FreeFrames
  /\ last.frame \notin DOMAIN replacer_.frame_infos_
  /\ \E g \in ResidentFrames :
       /\ pages_[g].pin_count_ = 1
       /\ Len(replacer_.frame_infos_[g].time_sequence_) = 2
       /\ ~replacer_.frame_infos_[g].evictable_

----------------------------------------------------------------------------
(* C22: in every reachable state of the replacer, size() is the number of  *)
(* tracked records whose evictable flag is true, at most replacer_size_    *)
(* frames are tracked, every record holds between 1 and k timestamps in    *)
(* strictly increasing order, and no timestamp (each below the counter) is *)
(* held twice; a record_access of an untracked frame on a full replacer    *)
(* changes nothing, the timestamp counter included.                        *)

\* the timestamps a record holds
Timestamps(r, f) ==
  {r.frame_infos_[f].time_sequence_[i] : i \in 1 .. Len(r.frame_infos_[f].time_sequence_)}

C22_Shape(r) ==
  /\ Size(r) = Cardinality({f \in DOMAIN r.frame_infos_ : r.frame_infos_[f].evictable_})
  /\ Cardinality(DOMAIN r.frame_infos_) <= r.replacer_size_
  /\ \A f \in DOMAIN r.frame_infos_ :
       LET ts == r.frame_infos_[f].time_sequence_
       IN /\ Len(ts) >= 1
          /\ Len(ts) <= r.k_
          /\ \A i \in 1 .. Len(ts) - 1 : ts[i] < ts[i + 1]
          /\ \A i \in 1 .. Len(ts) : ts[i] < r.current_timestamp_
  /\ \A f, g \in DOMAIN r.frame_infos_ :
       f # g => Timestamps(r, f) \cap Timestamps(r, g) = {}

C22_Dropped ==
  /\ last'.op = "RecordAccess"
  /\ last'.key \notin DOMAIN replacer_.frame_infos_
  /\ Cardinality(DOMAIN replacer_.frame_infos_) = replacer_.replacer_size_

C22_ReplacerShape ==
  [][/\ C22_Shape(replacer_)
     /\ C22_Shape(replacer_')
     /\ C22_Dropped => replacer_' = replacer_]_vars

\* record_access of an untracked frame has been dropped by a full replacer
\* that holds a record of k timestamps and one evictable record
C22_Witness ==
  /\ last.op = "RecordAccess"
  /\ last.key \notin DOMAIN replacer_.frame_infos_
  /\ Cardinality(DOMAIN replacer_.frame_infos_) = replacer_.replacer_size_
  /\ \E f \in DOMAIN replacer_.frame_infos_ :
       Len(replacer_.frame_infos_[f].time_sequence_) = replacer_.k_
  /\ Size(replacer_) = 1

----------------------------------------------------------------------------
(* C24: num_buckets_ is always the number of distinct buckets the          *)
(* directory references: it is 1 in a new table, an insert adds to it one  *)
(* for each split of its loop and nothing for a doubling (which doubles    *)
(* the directory and adds one to the global depth), and remove changes     *)
(* neither it, nor the directory, nor any local depth.  With buckets of    *)
(* capacity 2, inserting the keys 0b00, 0b01, 0b10 into a new table ends   *)
(* with global depth 1, two buckets, the keys 0b00 and 0b10 in the bucket  *)
(* of slot 0 and 0b01 in the bucket of slot 1.                             *)

\* the buckets the directory references
Referenced(ht) == {ht.dir_[i] : i \in 1 .. Len(ht.dir_)}

\* how many iterations of the insert loop were of kind e
Iterations(trace, e) == Cardinality({i \in 1 .. Len(trace) : trace[i] = e})

\* the keys in the bucket of a directory slot
SlotKeys(ht, slot) ==
  {ht.buckets[ht.dir_[slot + 1]].list_[i][1] :
     i \in 1 .. Len(ht.buckets[ht.dir_[slot + 1]].list_)}

\* the table of scenario S2
S2Table == Insert(Insert(Insert(NewHashTable(2), 0, 0), 1, 0), 2, 0)

C24_S2 ==
  /\ NewHashTable(2).num_buckets_ = 1
  /\ S2Table.global_depth_ = 1
  /\ S2Table.num_buckets_ = 2
  /\ Len(S2Table.dir_) = 2
  /\ SlotKeys(S2Table, 0) = {0, 2}
  /\ SlotKeys(S2Table, 1) = {1}
  /\ S2Table.dir_[1] # S2Table.dir_[2]

C24_Counted(ht) ==
  /\ ht.num_buckets_ = Cardinality(Referenced(ht))
  /\ ht.num_buckets_ >= 1

C24_InsertStep ==
  LET splits == Iterations(last'.events, "Split")
      doublings == Iterations(last'.events, "Double")
  IN /\ page_table_'.num_buckets_ = page_table_.num_buckets_ + splits
     /\ page_table_'.global_depth_ = page_table_.global_depth_ + doublings
     /\ Len(page_table_'.dir_) = Len(page_table_.dir_) * ShiftLeft1(doublings)

C24_RemoveStep ==
  /\ page_table_'.num_buckets_ = page_table_.num_buckets_
  /\ page_table_'.global_depth_ = page_table_.global_depth_
  /\ page_table_'.dir_ = page_table_.dir_
  /\ Len(page_table_'.buckets) = Len(page_table_.buckets)
  /\ \A b \in 1 .. Len(page_table_.buckets) :
       page_table_'.buckets[b].depth_ = page_table_.buckets[b].depth_

C24_BucketCount ==
  [][/\ C24_S2
     /\ C24_Counted(page_table_)
     /\ C24_Counted(page_table_')
     /\ last'.op = "Insert" => C24_InsertStep
     /\ last'.op = "Remove" => C24_RemoveStep]_vars

\* an insert has doubled the directory twice and split twice, taking a table
\* of one bucket to three buckets referenced from four slots
C24_Witness ==
  /\ last.op = "Insert"
  /\ Iterations(last.events, "Double") = 2
  /\ Iterations(last.events, "Split") = 2
  /\ page_table_.num_buckets_ = 3
  /\ Cardinality(Referenced(page_table_)) = 3
  /\ Len(page_table_.dir_) = 4

\* a remove has emptied a bucket of a table of three buckets, which stay three
C24_Removed ==
  /\ last.op = "Remove"
  /\ last.ok
  /\ page_table_.num_buckets_ = 3
  /\ Len(page_table_.dir_) = 4
  /\ \E b \in Referenced(page_table_) : page_table_.buckets[b].list_ = <<>>

----------------------------------------------------------------------------
(* C23: with threads calling the operations of the buffer pool manager     *)
(* concurrently, a thread acquires a lock only while it holds the locks    *)
(* that come before it in the order manager, directory, replacer and none  *)
(* that come after; while a thread is inside disk I/O it holds the         *)
(* manager's lock and nobody holds the directory's lock or the replacer's; *)
(* no deadlock is reachable (whenever a thread has started an operation,   *)
(* some thread can take a step); and, the manager's lock being handed to   *)
(* every thread that waits for it, every started operation runs to         *)
(* completion.                                                             *)

\* the locks thread t holds
Held(t) == {c \in DOMAIN latch_ : latch_[c] = t}

\* the locks that must be, and those that may be, held when c is acquired
C23_Before(c) ==
  CASE c = "bpm" -> {}
    [] c = "page_table_" -> {"bpm"}
    [] c = "replacer_" -> {"bpm"}

C23_Allowed(c) ==
  CASE c = "bpm" -> {}
    [] c = "page_table_" -> {"bpm"}
    [] c = "replacer_" -> {"bpm", "page_table_"}

C23_OrderedStep ==
  \A t \in ThreadIds : \A c \in DOMAIN latch_ :
    latch_[c] # t /\ latch_'[c] = t =>
      /\ latch_[c] = 0
      /\ C23_Before(c) \subseteq Held(t)
      /\ Held(t) \subseteq C23_Allowed(c)

C23_NoLockAcrossIo ==
  \A t \in ThreadIds :
    threads[t].at = "disk" =>
      /\ latch_.bpm = t
      /\ latch_.page_table_ = 0
      /\ latch_.replacer_ = 0

C23_Started == {t \in ThreadIds : threads[t] # Outside}

C23_NoDeadlock ==
  C23_Started # {} =>
    \E t \in C23_Started : ENABLED (BpmLocks(t) \/ BpmRuns(t))

C23_Completes ==
  \A t \in ThreadIds : (threads[t] # Outside) ~> (threads[t] = Outside)

C23_InReplacer ==
  \E t, u \in ThreadIds :
    /\ t # u
    /\ threads[t].at = "replacer_"
    /\ Held(t) = {"bpm", "replacer_"}
    /\ threads[u] = Blocked

=============================================================================
